---- MODULE Spec2Model ----
(***************************************************************************)
(* Verification model of the zng-network-sim engines.                      *)
(*                                                                         *)
(* Numbers are fixed point.  State of health (SOH) is counted in           *)
(* millionths (SohScale units = SOH 1.0), money in thousandths of a        *)
(* currency unit (so that round(x, 2) has something to round), dock age    *)
(* in sixteenths of an hour (30.4375 days = 487/16).                       *)
(***************************************************************************)
EXTENDS Integers, Sequences, FiniteSets, TLC

\* ------------------------------------------------------------------- state
\* Battery degradation cohort tracker (engine/degradation.py)
VARIABLES
    cohorts,        \* DegradationTracker._cohorts: sequence of _Cohort records
    next_id,        \* DegradationTracker._next_id
    auto_replace,   \* DegradationTracker._auto_replace
    pack,           \* the PackSpec / ChaosConfig fields the tracker reads
    deg_month,      \* month argument of the last step() call (0: none yet)
    deg_result      \* DegradationStepResult of the last step() call

trackerVars == <<cohorts, next_id, auto_replace, pack, deg_month, deg_result>>

\* Charger reliability tracker (engine/charger_reliability.py)
VARIABLES
    charger,              \* the ChargerVariant fields the tracker reads
    total_docks,          \* ChargerReliabilityTracker._total_docks
    hours_per_month,      \* ChargerReliabilityTracker._hours_per_month
    age_hours,            \* ChargerReliabilityTracker._age_hours, per dock
    cumulative_failures,  \* ChargerReliabilityTracker._cumulative_failures
    failures_per_dock,    \* the Poisson sample of the last step(), per dock
    rel_month,            \* month argument of the last step() call (0: none)
    rel_result            \* ChargerReliabilityStepResult of the last step()

relVars == <<charger, total_docks, hours_per_month, age_hours,
             cumulative_failures, failures_per_dock, rel_month, rel_result>>

\* Monthly engines and Monte-Carlo orchestrator (engine/cashflow.py,
\* engine/orchestrator.py)
VARIABLES
    scenario,               \* the Scenario passed to run_engine
    pc,                     \* where run_engine is: "call", "loop", "aggregate", "returned"
    mode,                   \* "static", "single", "collect" or "representative"
    call,                   \* how many times the caller has called run_engine
    run_i,                  \* _run_monte_carlo: loop index i
    seed,                   \* seed argument of the current _run_single_stochastic
    rng,                    \* state of the run's numpy Generator
    m,                      \* month loop variable
    cumulative_cf,          \* loop locals of the monthly loop, unrounded
    break_even_month,
    total_revenue,
    total_opex_sum,
    total_capex_sum,
    total_packs_retired,
    total_charger_failures,
    total_replacement_capex,
    total_salvage_credit,
    months,                 \* list of MonthlySnapshot of the current run
    ledger,                 \* per month, the unrounded amounts the snapshot rounds
    summaries,              \* _run_monte_carlo: summaries collected so far
    mc,                     \* _run_monte_carlo: the MonteCarloSummary
    median_idx,             \* _run_monte_carlo: index of the representative run
    runs,                   \* every run finished during this call: seed and result
    results                 \* what run_engine returned, one entry per call

loopVars == <<m, cumulative_cf, break_even_month, total_revenue, total_opex_sum,
              total_capex_sum, total_packs_retired, total_charger_failures,
              total_replacement_capex, total_salvage_credit, months, ledger>>

engVars == <<scenario, pc, mode, call, run_i, seed, rng, loopVars,
             summaries, mc, median_idx, runs, results>>

\* Monte-Carlo aggregation taken on its own (engine/orchestrator.py)
VARIABLES
    agg_runs,       \* the summaries of the N runs, by run index i
    agg_order,      \* the order in which the summaries were collected
    agg_out,        \* the percentile summary and the representative run
    pilot           \* _evaluate_fleet_size and _check_target on that result

aggVars == <<agg_runs, agg_order, agg_out, pilot>>

\* Pilot sizing (engine/optimizer.py, find_minimum_fleet_size)
VARIABLES
    min_fleet,      \* arguments of find_minimum_fleet_size
    max_fleet,
    max_iterations,
    passes,         \* per fleet size, whether its evaluation meets the target
    lo,             \* locals of the binary search
    hi,
    iterations,
    best_passing,
    search_log,
    evaluations,    \* the fleet sizes _evaluate_fleet_size was called with
    sizing          \* the PilotSizingResult, once returned

optVars == <<min_fleet, max_fleet, max_iterations, passes, lo, hi, iterations,
             best_passing, search_log, evaluations, sizing>>

\* Debt schedule and DSCR (finance/dscr.py)
VARIABLES
    finance,        \* the FinanceConfig fields read
    debt_capex,     \* total_initial_capex argument
    debt_horizon,   \* horizon_months argument
    debt_m,         \* build_debt_schedule: loop variable m
    balance,        \* build_debt_schedule: balance, unrounded
    debt_rows,      \* build_debt_schedule: rows appended so far
    debt_exact,     \* per row, the unrounded amounts the row rounds
    debt,           \* the DebtSchedule returned
    snaps,          \* months argument of compute_dscr
    dscr            \* the DSCRResult returned

debtVars == <<finance, debt_capex, debt_horizon, debt_m, balance, debt_rows,
              debt_exact, debt, snaps, dscr>>

\* --- trial copies of the caller's scenario and charger
VARIABLES
    heap,           \* the objects: refs, vals and the allocated addresses
    caller_charger, \* the charger object passed in by the caller
    caller_before,  \* the heap as it was before the first call
    copy_pc,        \* position inside the running call
    copy_op,        \* the running call
    locals,         \* the objects the running call's local names refer to
    sweeps_left,    \* the sweeps of the sweeps argument not yet reached
    sweep,          \* the sweep of the current iteration
    evals_left,     \* fleet sizes the optimizer still evaluates
    returned        \* the calls that have returned

copyVars == <<heap, caller_charger, caller_before, copy_pc, copy_op, locals,
              sweeps_left, sweep, evals_left, returned>>

\* --- compute_charger_tco
VARIABLES
    tco_scenario,   \* the station and simulation fields read
    tco_docks,      \* derived.total_docks
    tco_charger,    \* the ChargerVariant fields read
    tco             \* the ChargerTCOBreakdown returned

tcoVars == <<tco_scenario, tco_docks, tco_charger, tco>>

\* --- one month's demand in both engines
VARIABLES
    dem_scenario,   \* the derived, demand, vehicle and revenue fields read
    dem_fleet,      \* the fleet size; twice that size is computed as well
    dem_static,     \* per fleet size, the month of run_simulation
    dem_generated   \* per fleet size, the month of generate_monthly_demand

demVars == <<dem_scenario, dem_fleet, dem_static, dem_generated>>

\* --- check_charger_recommendation
VARIABLES
    original_npvs,  \* the original_npvs argument, per variant
    tuned_npvs,     \* per variant, the NPV of the re-run with its tuned parameters
    auto_tuned,     \* per variant: auto_tune_results holds parameters for it
    threshold_pct,  \* the threshold_pct argument
    rec_i,          \* how many variants the loop has taken
    alerts,         \* check_charger_recommendation: alerts
    rec_returned    \* the alerts have been returned

recVars == <<original_npvs, tuned_npvs, auto_tuned, threshold_pct, rec_i, alerts,
             rec_returned>>

\* --- compute_irr
VARIABLES
    cash_flows,     \* the cash_flows argument
    max_iter,       \* the max_iter argument
    npv_curve,      \* compute_npv of the cash flows, as a function of the rate
    irr_low,        \* compute_irr: low
    irr_high,       \* compute_irr: high
    irr_iter,       \* iterations of the bisection loop begun
    irr             \* what compute_irr returned, and by which return statement

irrVars == <<cash_flows, max_iter, npv_curve, irr_low, irr_high, irr_iter, irr>>

\* --- find_optimal_scale
VARIABLES
    fleet_sizes,    \* the fleet_sizes argument
    scale_metric,   \* the target_metric argument
    scale_outcomes, \* per fleet size, what _evaluate_fleet_size returns
    scale_i,        \* how many elements of fleet_sizes the loop has taken
    best_fleet,     \* find_optimal_scale: best_fleet
    best_npv_val,   \* find_optimal_scale: best_npv_val
    scale_log,      \* find_optimal_scale: search_log
    scale_result    \* the PilotSizingResult returned, or the exception raised

scaleVars == <<fleet_sizes, scale_metric, scale_outcomes, scale_i, best_fleet,
               best_npv_val, scale_log, scale_result>>

vars == <<trackerVars, relVars, engVars, aggVars, optVars, debtVars, copyVars, tcoVars,
          scaleVars, demVars, recVars, irrVars>>

\* What each component leaves alone.
notTracker == <<relVars, engVars, aggVars, optVars, debtVars, copyVars, tcoVars,
                scaleVars, demVars, recVars, irrVars>>
notRel == <<trackerVars, engVars, aggVars, optVars, debtVars, copyVars, tcoVars,
            scaleVars, demVars, recVars, irrVars>>
notEng == <<aggVars, optVars, debtVars, copyVars, tcoVars, scaleVars, demVars, recVars,
            irrVars>>
notAgg == <<trackerVars, relVars, engVars, optVars, debtVars, copyVars, tcoVars,
            scaleVars, demVars, recVars, irrVars>>
notOpt == <<trackerVars, relVars, engVars, aggVars, debtVars, copyVars, tcoVars,
            scaleVars, demVars, recVars, irrVars>>
notDebt == <<trackerVars, relVars, engVars, aggVars, optVars, copyVars, tcoVars,
             scaleVars, demVars, recVars, irrVars>>
notCopy == <<trackerVars, relVars, engVars, aggVars, optVars, debtVars, tcoVars,
             scaleVars, demVars, recVars, irrVars>>
notTco == <<trackerVars, relVars, engVars, aggVars, optVars, debtVars, copyVars,
            scaleVars, demVars, recVars, irrVars>>
notScale == <<trackerVars, relVars, engVars, aggVars, optVars, debtVars, copyVars,
              tcoVars, demVars, recVars, irrVars>>
notDemand == <<trackerVars, relVars, engVars, aggVars, optVars, debtVars, copyVars,
               tcoVars, scaleVars, recVars, irrVars>>
notRec == <<trackerVars, relVars, engVars, aggVars, optVars, debtVars, copyVars,
            tcoVars, scaleVars, demVars, irrVars>>
notIrr == <<trackerVars, relVars, engVars, aggVars, optVars, debtVars, copyVars,
            tcoVars, scaleVars, demVars, recVars>>

\* ------------------------------------------------------------------ bounds
MaxMonth == 4
MaxCohorts == 2
MaxPackCount == 2
\* Fleet cycles per month offered to the tracker (idle, light, heavy use).
CycleChoices == {0, 2, 3}

\* --------------------------------------------------------- numeric helpers
\* Python's round(): nearest integer, ties to the even one; n / d with d > 0.
RoundHalfEven(n, d) ==
    LET q == n \div d
        r == n % d
    IN  IF 2 * r < d THEN q
        ELSE IF 2 * r > d THEN q + 1
        ELSE IF q % 2 = 0 THEN q ELSE q + 1

Max(a, b) == IF a >= b THEN a ELSE b
Min(a, b) == IF a <= b THEN a ELSE b
Abs(a) == IF a >= 0 THEN a ELSE -a

RECURSIVE SumSeq(_)
SumSeq(s) == IF s = <<>> THEN 0 ELSE Head(s) + SumSeq(Tail(s))

\* =========================================================================
\* Battery degradation cohort tracker (engine/degradation.py)
\* =========================================================================
SohScale == 1000000
\* The 1e-9 retirement epsilon absorbs IEEE-754 noise; fixed point has none
\* and 1e-9 is below one SOH unit.
RetireEpsilon == 0

\* _Cohort(cohort_id, born_month, pack_count) with the dataclass defaults.
NewCohort(cid, born_month, pack_count) ==
    [cohort_id |-> cid, born_month |-> born_month, pack_count |-> pack_count,
     current_soh |-> SohScale, cumulative_cycles |-> 0,
     is_retired |-> FALSE, retired_month |-> 0]

\* self._beta_per_cycle: (cycle_degradation_rate_pct / 100) * aggressiveness,
\* here SOH units per cycle times the aggressiveness index in tenths.
BetaPerCycle(p) == (p.cycle_degradation_rate * p.aggressiveness_index) \div 10

\* active_pack_count property: packs of the non-retired cohorts.
RECURSIVE ActivePackCount(_)
ActivePackCount(cs) ==
    IF cs = <<>> THEN 0
    ELSE (IF Head(cs).is_retired THEN 0 ELSE Head(cs).pack_count)
         + ActivePackCount(Tail(cs))

\* Sum of current_soh * pack_count over the non-retired cohorts.
RECURSIVE WeightedSoh(_)
WeightedSoh(cs) ==
    IF cs = <<>> THEN 0
    ELSE (IF Head(cs).is_retired THEN 0
          ELSE Head(cs).current_soh * Head(cs).pack_count)
         + WeightedSoh(Tail(cs))

\* avg_soh property.
AvgSoh(cs) ==
    IF ActivePackCount(cs) > 0
    THEN RoundHalfEven(WeightedSoh(cs), ActivePackCount(cs))
    ELSE 0

\* total_soh_loss of one step: beta * cycles_per_pack + calendar aging.
TotalSohLoss(p, total_fleet_cycles, active_packs) ==
    RoundHalfEven(BetaPerCycle(p) * total_fleet_cycles, active_packs)
    + p.calendar_aging_rate

\* int(round(cycles_per_pack))
CyclesPerPackRounded(total_fleet_cycles, active_packs) ==
    RoundHalfEven(total_fleet_cycles, active_packs)

\* Mutant: retirement only strictly below the retirement SOH.
RetiresAtStrict(p, soh) == soh < p.retirement_soh

\* The retirement test of step(): new SOH <= retirement SOH + epsilon.
RetiresAt(p, soh) == soh <= p.retirement_soh + RetireEpsilon

\* Mutant: the loop without its `if cohort.is_retired: continue`.
DegradeCohortNoSkip(p, c, month, loss, cyc) ==
    LET soh == c.current_soh - loss
    IN  [c EXCEPT !.current_soh = soh,
                  !.cumulative_cycles = c.cumulative_cycles + cyc,
                  !.is_retired = c.is_retired \/ soh <= p.retirement_soh,
                  !.retired_month = IF c.is_retired THEN c.retired_month
                                    ELSE IF soh <= p.retirement_soh THEN month ELSE 0]

\* Body of the degradation loop for one cohort.
DegradeCohort(p, c, month, loss, cyc) ==
    IF c.is_retired THEN c
    ELSE LET soh == c.current_soh - loss
         IN  [c EXCEPT !.current_soh = soh,
                       !.cumulative_cycles = c.cumulative_cycles + cyc,
                       !.is_retired = RetiresAt(p, soh),
                       !.retired_month = IF RetiresAt(p, soh) THEN month ELSE 0]

\* Indices of the cohorts the loop retires in this step, in list order.
NewlyRetired(before, after) ==
    SelectSeq([i \in 1..Len(before) |-> i],
              LAMBDA i : ~before[i].is_retired /\ after[i].is_retired)

RECURSIVE PacksOf(_, _)
PacksOf(cs, idx) ==
    IF idx = <<>> THEN 0 ELSE cs[Head(idx)].pack_count + PacksOf(cs, Tail(idx))

\* Mutant: all packs retired in a step replaced by one merged cohort.
ReplacementCohortsMerged(after, retired, nid, month) ==
    <<NewCohort(nid, month, PacksOf(after, retired))>>

\* Mutant: a replacement cohort that takes over the cycle count of the cohort
\* it replaces.
ReplacementCohortsCarryCycles(after, retired, nid, month) ==
    [k \in 1..Len(retired) |->
        [NewCohort(nid + k - 1, month, after[retired[k]].pack_count)
            EXCEPT !.cumulative_cycles = after[retired[k]].cumulative_cycles]]

\* Section 3 of step(): one add_cohort per newly retired cohort.
ReplacementCohorts(after, retired, nid, month) ==
    [k \in 1..Len(retired) |->
        NewCohort(nid + k - 1, month, after[retired[k]].pack_count)]

\* DegradationTracker.step(month, total_fleet_cycles): the new cohort list,
\* id counter and the step result.
DegStep(p, auto, cs, nid, month, total_fleet_cycles) ==
    LET active_packs == ActivePackCount(cs)
    IN  IF active_packs <= 0
        THEN [cohorts |-> cs, next_id |-> nid,
              result |-> [packs_retired |-> 0, packs_replaced |-> 0,
                          active_pack_count |-> 0, avg_soh |-> 0]]
        ELSE
        LET loss == TotalSohLoss(p, total_fleet_cycles, active_packs)
            cyc == CyclesPerPackRounded(total_fleet_cycles, active_packs)
            after == [i \in 1..Len(cs) |-> DegradeCohort(p, cs[i], month, loss, cyc)]
            retired == NewlyRetired(cs, after)
            packs_retired == PacksOf(after, retired)
            replace == auto /\ packs_retired > 0
            fresh == IF replace
                     THEN ReplacementCohorts(after, retired, nid, month)
                     ELSE <<>>
            final == after \o fresh
        IN  [cohorts |-> final,
             next_id |-> nid + Len(fresh),
             result |-> [packs_retired |-> packs_retired,
                         packs_replaced |-> PacksOf(after, IF replace THEN retired ELSE <<>>),
                         active_pack_count |-> ActivePackCount(final),
                         avg_soh |-> AvgSoh(final)]]

NoDegResult ==
    [packs_retired |-> 0, packs_replaced |-> 0, active_pack_count |-> 0, avg_soh |-> 0]

\* Pack specifications the tracker is exercised with: fast cycle wear, slow
\* cycle wear with calendar aging, aggressive drivers.
PackSpecs ==
    { [cycle_degradation_rate |-> 100000, aggressiveness_index |-> 10,
       calendar_aging_rate |-> 0, retirement_soh |-> 700000],
      [cycle_degradation_rate |-> 50000, aggressiveness_index |-> 10,
       calendar_aging_rate |-> 100000, retirement_soh |-> 700000],
      [cycle_degradation_rate |-> 100000, aggressiveness_index |-> 15,
       calendar_aging_rate |-> 50000, retirement_soh |-> 800000] }

\* DegradationTracker.__init__
TrackerInit ==
    /\ cohorts = <<>>
    /\ next_id = 0
    /\ auto_replace \in BOOLEAN
    /\ pack \in PackSpecs
    /\ deg_month = 0
    /\ deg_result = NoDegResult

\* DegradationTracker.add_cohort(pack_count, born_month)
AddCohort ==
    /\ Len(cohorts) < MaxCohorts
    /\ \E pack_count \in 1..MaxPackCount, born_month \in {Max(deg_month, 1)} :
        /\ cohorts' = Append(cohorts, NewCohort(next_id, born_month, pack_count))
        /\ next_id' = next_id + 1
    /\ UNCHANGED <<auto_replace, pack, deg_month, deg_result, notTracker>>

\* DegradationTracker.step(month, total_fleet_cycles), months in calendar order.
Step ==
    /\ deg_month < MaxMonth
    /\ \E total_fleet_cycles \in CycleChoices :
        LET r == DegStep(pack, auto_replace, cohorts, next_id,
                         deg_month + 1, total_fleet_cycles)
        IN  /\ cohorts' = r.cohorts
            /\ next_id' = r.next_id
            /\ deg_result' = r.result
    /\ deg_month' = deg_month + 1
    /\ UNCHANGED <<auto_replace, pack, notTracker>>

\* ---- a tracker with one initial cohort under a constant monthly load
MaxLoadMonth == 6
\* total_fleet_cycles of every month
MonthlyLoad == 10000

\* Pack specifications around the one with 0.10 % SOH per cycle, no calendar
\* aging and retirement at SOH 0.70.
LoadPackSpecs ==
    { [cycle_degradation_rate |-> rate, aggressiveness_index |-> 10,
       calendar_aging_rate |-> calendar, retirement_soh |-> retirement] :
      rate \in {500, 1000, 1500}, calendar \in {0, 10000},
      retirement \in {700000, 800000} }

\* DegradationTracker(pack, chaos, auto_replace) followed by
\* add_cohort(pack_count, born_month = 1)
LoadInit ==
    /\ auto_replace \in BOOLEAN
    /\ pack \in LoadPackSpecs
    /\ \E pack_count \in {50, 100} : cohorts = <<NewCohort(0, 1, pack_count)>>
    /\ next_id = 1
    /\ deg_month = 0
    /\ deg_result = NoDegResult

\* step(month, total_fleet_cycles = 10,000) for the next month
LoadStep ==
    /\ deg_month < MaxLoadMonth
    /\ LET r == DegStep(pack, auto_replace, cohorts, next_id, deg_month + 1, MonthlyLoad)
       IN  /\ cohorts' = r.cohorts
           /\ next_id' = r.next_id
           /\ deg_result' = r.result
    /\ deg_month' = deg_month + 1
    /\ UNCHANGED <<auto_replace, pack, notTracker>>

\* =========================================================================
\* Charger reliability tracker (engine/charger_reliability.py)
\* =========================================================================
MaxDocks == 2
MaxFailures == 2
MaxRelMonth == 3

\* _DAYS_PER_MONTH = 30.4375 = 487/16: a month of h hours a day lasts 487 * h
\* sixteenths of an hour.
DaysPerMonth16 == 487

HoursPerMonth(operating_hours_per_day) == operating_hours_per_day * DaysPerMonth16

\* Money: thousandths of a currency unit; round(x, 2) keeps hundredths.
Round2(x) == 10 * RoundHalfEven(x, 10)

\* x * y / d rounded to the nearest integer, ties to even, computed in
\* parts that stay within 32 bits (x, y >= 0, 0 < d < 2,000,000)
MulDiv(x, y, d) ==
    LET x1 == x \div 1000
        x0 == x % 1000
        r1 == (x1 * y) % d
        r0 == (x0 * y) % d
        rest == ((r1 * 1000) % d) + r0
        whole == ((x1 * y) \div d) * 1000 + (r1 * 1000) \div d + (x0 * y) \div d
                    + rest \div d
        part == rest % d
    IN  IF 2 * part > d \/ (2 * part = d /\ whole % 2 = 1) THEN whole + 1 ELSE whole

RECURSIVE SumFn(_, _)
SumFn(f, n) == IF n = 0 THEN 0 ELSE f[n] + SumFn(f, n - 1)

NoRelResult ==
    [failures |-> 0, replacements |-> 0, repair_cost |-> 0, replacement_cost |-> 0]

\* Mutant: a dock is replaced only once it is past the threshold.
NeedsReplacementAbove(ch, cum) == cum > ch.replacement_threshold

\* needs_replacement: cumulative failures reached the replacement threshold.
NeedsReplacement(ch, cum) == cum >= ch.replacement_threshold

\* Mutant: every dock is aged after the reset, the replaced ones too.
AgeAfterStepAllAged(ch, age, cum, h) ==
    IF NeedsReplacement(ch, cum) THEN h ELSE age + h

\* Sections 4-5 of step(): a replaced dock restarts at age 0, the others age.
AgeAfterStep(ch, age, cum, h) ==
    IF NeedsReplacement(ch, cum) THEN 0 ELSE age + h

\* ChargerReliabilityTracker.step(month) for a given Poisson sample `fails`.
RelStep(ch, n, h, ages, cums, fails) ==
    IF n <= 0
    THEN [age_hours |-> ages, cumulative_failures |-> cums, result |-> NoRelResult]
    ELSE
    LET total_failures == SumFn(fails, n)
        cum2 == [d \in 1..n |-> cums[d] + fails[d]]
        num_replacements == Cardinality({d \in 1..n : NeedsReplacement(ch, cum2[d])})
    IN  [age_hours |-> [d \in 1..n |-> AgeAfterStep(ch, ages[d], cum2[d], h)],
         cumulative_failures |->
            [d \in 1..n |-> IF NeedsReplacement(ch, cum2[d]) THEN 0 ELSE cum2[d]],
         result |-> [failures |-> total_failures,
                     replacements |-> num_replacements,
                     repair_cost |-> Round2(total_failures * ch.repair_cost_per_event),
                     replacement_cost |->
                        Round2(num_replacements * ch.full_replacement_cost)]]

\* Charger variants: replace at the first failure, or after two or three repairs.
ChargerVariants ==
    { [replacement_threshold |-> t, repair_cost_per_event |-> 1500,
       full_replacement_cost |-> 7000, purchase_cost_per_slot |-> 8000] : t \in 1..3 }

OperatingHours == {18, 21}

\* ChargerReliabilityTracker.__init__
RelInit ==
    /\ charger \in ChargerVariants
    /\ total_docks \in 0..MaxDocks
    /\ hours_per_month \in {HoursPerMonth(o) : o \in OperatingHours}
    /\ age_hours = [d \in 1..total_docks |-> 0]
    /\ cumulative_failures = [d \in 1..total_docks |-> 0]
    /\ failures_per_dock = [d \in 1..total_docks |-> 0]
    /\ rel_month = 0
    /\ rel_result = NoRelResult

\* ChargerReliabilityTracker.step(month): any Poisson sample may be drawn.
RelStepAction ==
    /\ rel_month < MaxRelMonth
    /\ \E fails \in [1..total_docks -> 0..MaxFailures] :
        LET r == RelStep(charger, total_docks, hours_per_month,
                         age_hours, cumulative_failures, fails)
        IN  /\ age_hours' = r.age_hours
            /\ cumulative_failures' = r.cumulative_failures
            /\ rel_result' = r.result
            /\ failures_per_dock' = fails
    /\ rel_month' = rel_month + 1
    /\ UNCHANGED <<charger, total_docks, hours_per_month, notRel>>

\* A tracker that is not in use.
TrackerIdle ==
    /\ cohorts = <<>>
    /\ next_id = 0
    /\ auto_replace = TRUE
    /\ pack = CHOOSE p \in PackSpecs : TRUE
    /\ deg_month = 0
    /\ deg_result = NoDegResult

RelIdle ==
    /\ charger = CHOOSE c \in ChargerVariants : TRUE
    /\ total_docks = 0
    /\ hours_per_month = 0
    /\ age_hours = <<>>
    /\ cumulative_failures = <<>>
    /\ failures_per_dock = <<>>
    /\ rel_month = 0
    /\ rel_result = NoRelResult


\* =========================================================================
\* Monthly engines (engine/cashflow.py, engine/orchestrator.py)
\* =========================================================================
MaxHorizon == 4
MaxRuns == 3
MaxCalls == 2

\* break_even_month = None
NoMonth == 0
\* random_seed = None
NoSeed == -1
\* The seed run_engine falls back to when random_seed is None.
DefaultSeed == 42
\* DAYS_PER_MONTH of the demand generator and the static engine's 30.
DaysPerMonth == 30
\* Weekend days among days 0..29 of a month that starts on a Monday.
WeekendDays == Cardinality({d \in 0..(DaysPerMonth - 1) : d % 7 \in {5, 6}})

\* The generator: a full-period linear congruential sequence.  default_rng
\* maps the seed to a state; every sampling call advances the state.
RngMod == 16
SeedState(sd) == sd % RngMod
RngAdvance(u) == (5 * u + 3) % RngMod

\* ---- derived parameters (engine/derived.py)
TotalDocks(sc) == sc.station.num_stations * sc.station.docks_per_station
TotalPacks(sc) ==
    sc.vehicle.packs_per_vehicle * sc.revenue.initial_fleet_size + TotalDocks(sc)

\* ---- charger and pack TCO (engine/charger_tco.py, engine/pack_tco.py):
\* the figures the static engine spreads over the horizon.  Expected failures
\* = hours/day * 365 * (horizon / 12) * units / MTBF.
FleetHoursTimes12(sc, units) ==
    sc.station.operating_hours_per_day * 365 * sc.simulation.horizon_months * units

\* round(expected_failures, 2), in hundredths
ExpectedFailures100(sc, units, mtbf) ==
    MulDiv(FleetHoursTimes12(sc, units), 100, 12 * mtbf)

\* round(expected_failures * repair_cost_per_event, 2)
TotalRepairCost(sc, units, spec) ==
    Round2(RoundHalfEven(FleetHoursTimes12(sc, units) * spec.repair_cost_per_event,
                         12 * spec.mtbf_hours))

\* Mutant: the replacements of each dock on its own, summed over the docks.
NumReplacementsPerDock(sc, units, spec) ==
    units * (FleetHoursTimes12(sc, 1)
                \div (12 * spec.mtbf_hours * spec.replacement_threshold))

\* floor(expected_failures / replacement_threshold)
NumReplacements(sc, units, spec) ==
    FleetHoursTimes12(sc, units) \div (12 * spec.mtbf_hours * spec.replacement_threshold)

TotalReplacementCost(sc, units, spec) ==
    Round2(NumReplacements(sc, units, spec) * spec.full_replacement_cost)

\* The repair and replacement cost the static engine books each month.
SpreadCost(sc, units, spec) ==
    IF ExpectedFailures100(sc, units, spec.mtbf_hours) > 0
       /\ sc.simulation.horizon_months > 0
    THEN RoundHalfEven(TotalRepairCost(sc, units, spec), sc.simulation.horizon_months)
         + RoundHalfEven(TotalReplacementCost(sc, units, spec),
                         sc.simulation.horizon_months)
    ELSE 0

\* ---- compute_charger_tco as a call of its own
MaxThreshold == 3
TcoDocks == {1, 2, 250}
TcoHorizons == {12, 36, 60}
TcoMtbfHours == {20000, 80000}
NoTco == [computed |-> FALSE]

TcoInit ==
    /\ \E h \in OperatingHours, n \in TcoHorizons :
          tco_scenario = [station |-> [operating_hours_per_day |-> h],
                          simulation |-> [horizon_months |-> n]]
    /\ tco_docks \in TcoDocks
    /\ \E mtbf \in TcoMtbfHours, t \in 1..MaxThreshold :
          tco_charger = [mtbf_hours |-> mtbf, replacement_threshold |-> t,
                         full_replacement_cost |-> 7000]
    /\ tco = NoTco

TcoIdle ==
    /\ tco_scenario = [station |-> [operating_hours_per_day |-> 18],
                       simulation |-> [horizon_months |-> 12]]
    /\ tco_docks = 1
    /\ tco_charger = [mtbf_hours |-> 80000, replacement_threshold |-> 1,
                      full_replacement_cost |-> 7000]
    /\ tco = NoTco

\* compute_charger_tco: the failure and replacement figures of the breakdown
ComputeChargerTco ==
    /\ ~tco.computed
    /\ tco' = [computed |-> TRUE,
               total_docks |-> tco_docks,
               expected_failures_over_horizon |->
                   ExpectedFailures100(tco_scenario, tco_docks, tco_charger.mtbf_hours),
               num_replacements |-> NumReplacements(tco_scenario, tco_docks, tco_charger),
               total_replacement_cost |->
                   TotalReplacementCost(tco_scenario, tco_docks, tco_charger)]
    /\ UNCHANGED <<tco_scenario, tco_docks, tco_charger, notTco>>

\* ---- amounts common to both monthly loops
FleetSize(sc, month) ==
    sc.revenue.initial_fleet_size + sc.revenue.monthly_fleet_additions * (month - 1)

TotalInitialCapex(sc, p, ch) ==
    (sc.station.cabinet_cost + sc.station.site_prep_cost
        + sc.station.grid_connection_cost + sc.station.security_deposit)
        * sc.station.num_stations
    + sc.station.software_cost
    + ch.purchase_cost_per_slot * TotalDocks(sc)
    + TotalPacks(sc) * p.unit_cost

StationOpex(sc) ==
    (sc.opex.rent_per_month_per_station + sc.opex.auxiliary_power_per_month
        + sc.opex.preventive_maintenance_per_month_per_station
        + sc.opex.corrective_maintenance_per_month_per_station
        + sc.opex.insurance_per_month_per_station
        + sc.opex.logistics_per_month_per_station)
    * sc.station.num_stations

\* total_cycles * (nominal_capacity_kwh / charging_efficiency) * tariff, with
\* the capacity in Wh and the efficiency in percent.
ElectricityCost(sc, p, ch, total_cycles) ==
    IF ch.charging_efficiency_pct > 0
    THEN RoundHalfEven(total_cycles * p.nominal_capacity_wh
                           * sc.opex.electricity_tariff_per_kwh,
                       10 * ch.charging_efficiency_pct)
    ELSE 0

LaborCost(sc, total_cycles) == total_cycles * sc.opex.pack_handling_labor_per_swap

\* sabotage_pct_per_month (in thousandths) * packs * unit_cost
SabotageCost(sc, p, packs) ==
    RoundHalfEven(sc.chaos.sabotage_per_mille * packs * p.unit_cost, 1000)

\* Mutant: the growth cohort registered in month 1 as well.
NewPacksEveryMonth(sc, month) ==
    IF sc.revenue.monthly_fleet_additions > 0
    THEN sc.vehicle.packs_per_vehicle * sc.revenue.monthly_fleet_additions
    ELSE 0

\* New vehicles -> new packs (0 when the fleet does not grow this month).
NewPacks(sc, month) ==
    IF month > 1 /\ sc.revenue.monthly_fleet_additions > 0
    THEN sc.vehicle.packs_per_vehicle * sc.revenue.monthly_fleet_additions
    ELSE 0

\* ---- static engine (engine/cashflow.py)
\* Mutant: thirty times the rounded visits of one day.
StaticSwapVisitsByDay(sc, fleet_size) ==
    DaysPerMonth
        * RoundHalfEven(sc.derived.swap_visits_per_vehicle_per_day * fleet_size, 10000)

\* swap_visits = int(round(visits_per_day * 30)); the rate is in 1/10000.
StaticSwapVisits(sc, fleet_size) ==
    RoundHalfEven(sc.derived.swap_visits_per_vehicle_per_day * fleet_size * DaysPerMonth,
                  10000)

StaticOpex(sc, p, ch, total_cycles) ==
    StationOpex(sc) + ElectricityCost(sc, p, ch, total_cycles)
    + LaborCost(sc, total_cycles) + sc.opex.overhead_per_month
    + SabotageCost(sc, p, TotalPacks(sc))

StaticCapex(sc, p, ch, month) ==
    (IF month = 1 THEN TotalInitialCapex(sc, p, ch) ELSE 0)
    + NewPacks(sc, month) * p.unit_cost
    + SpreadCost(sc, TotalDocks(sc), ch)
    + SpreadCost(sc, TotalPacks(sc), p)

\* ---- stochastic demand (engine/demand.py)
\* np.round of one day's mean; weekend days are scaled by weekend_factor
\* (in percent).  The seasonal amplitude is 0 in every scenario used here.
DailyRounded(sc, fleet_size, weekend) ==
    IF weekend
    THEN RoundHalfEven(sc.derived.swap_visits_per_vehicle_per_day * fleet_size
                           * sc.demand.weekend_factor_pct, 1000000)
    ELSE RoundHalfEven(sc.derived.swap_visits_per_vehicle_per_day * fleet_size, 10000)

\* Sum of the 30 rounded daily means.
MeanMonthlyVisits(sc, fleet_size) ==
    (DaysPerMonth - WeekendDays) * DailyRounded(sc, fleet_size, FALSE)
    + WeekendDays * DailyRounded(sc, fleet_size, TRUE)

\* Does generate_daily_demand draw from the generator?  Poisson always does,
\* gamma only with a positive volatility, the fallback branch never.
DemandDraws(sc) ==
    \/ sc.demand.distribution = "poisson"
    \/ sc.demand.distribution = "gamma" /\ sc.demand.volatility > 0

\* The month's visits a generator in state u yields: the sampled days sum
\* to the rounded means plus a noise in -2..2, never below 0 (a zero mean
\* yields zero visits).
MonthlyVisits(sc, fleet_size, u) ==
    IF ~DemandDraws(sc) THEN MeanMonthlyVisits(sc, fleet_size)
    ELSE IF MeanMonthlyVisits(sc, fleet_size) = 0 THEN 0
    ELSE Max(0, MeanMonthlyVisits(sc, fleet_size) + (u % 5) - 2)

\* The per-dock Poisson sample a generator in state u yields.
FailureSample(n, u) == [d \in 1..n |-> ((u + 3 * d) % 7) % (MaxFailures + 1)]

\* ---- stochastic engine (engine/orchestrator.py)
StochasticOpex(sc, p, ch, total_cycles, active_packs, repair_cost) ==
    StationOpex(sc) + ElectricityCost(sc, p, ch, total_cycles)
    + LaborCost(sc, total_cycles) + sc.opex.overhead_per_month
    + SabotageCost(sc, p, active_packs) + repair_cost

\* Mutant: the gross replacement cost, without the salvage credit.
NetReplacementCostGross(p, packs_retired) == packs_retired * p.unit_cost

\* net_replacement_cost = replacement_capex - salvage_credit
NetReplacementCost(p, packs_retired) ==
    packs_retired * p.unit_cost - packs_retired * p.second_life_salvage_value

\* Mutant: the running total takes the month's net replacement cost.
ReplacementCapexAfterNet(total, replacement_capex, salvage_credit) ==
    total + replacement_capex - salvage_credit

\* total_replacement_capex += replacement_capex
ReplacementCapexAfter(total, replacement_capex, salvage_credit) ==
    total + replacement_capex

\* Mutant: the month's CapEx without the pack replacements.
StochasticCapexNoReplacement(sc, p, ch, month, packs_retired, char_replacement_cost) ==
    (IF month = 1 THEN TotalInitialCapex(sc, p, ch) ELSE 0)
    + NewPacks(sc, month) * p.unit_cost
    + char_replacement_cost

StochasticCapex(sc, p, ch, month, packs_retired, char_replacement_cost) ==
    (IF month = 1 THEN TotalInitialCapex(sc, p, ch) ELSE 0)
    + NewPacks(sc, month) * p.unit_cost
    + NetReplacementCost(p, packs_retired)
    + char_replacement_cost

\* ---- the ledger lines shared by both loops
\* Mutant: the break-even test without `break_even_month is None`.
BreakEvenAfterLatest(be, cum, month) ==
    IF cum >= 0 /\ month > 1 THEN month ELSE be

\* if break_even_month is None and cumulative_cf >= 0 and m > 1
BreakEvenAfter(be, cum, month) ==
    IF be = NoMonth /\ cum >= 0 /\ month > 1 THEN month ELSE be

\* Mutant: cumulative_cf overwritten instead of accumulated.
CumulativeAfterOverwrite(cum, net_cf) == net_cf

\* cumulative_cf += net_cf
CumulativeAfter(cum, net_cf) == cum + net_cf

\* The nine fields every MonthlySnapshot carries.
BaseSnapshot(month, fleet_size, swap_visits, total_cycles, rev, opex, capex, cum) ==
    [month |-> month, fleet_size |-> fleet_size, swap_visits |-> swap_visits,
     total_cycles |-> total_cycles,
     revenue |-> Round2(rev), opex_total |-> Round2(opex),
     capex_this_month |-> Round2(capex),
     net_cash_flow |-> Round2(rev - opex - capex),
     cumulative_cash_flow |-> Round2(CumulativeAfter(cum, rev - opex - capex))]

LedgerLine(rev, opex, capex, cum) ==
    [revenue |-> rev, opex |-> opex, capex |-> capex,
     net_cf |-> rev - opex - capex,
     cumulative_cf |-> CumulativeAfter(cum, rev - opex - capex)]

\* ---- run summaries

\* RunSummary of the static engine.
StaticSummary(rev, opex, capex, be) ==
    [total_revenue |-> Round2(rev), total_opex |-> Round2(opex),
     total_capex |-> Round2(capex),
     total_net_cash_flow |-> Round2(rev - opex - capex),
     break_even_month |-> be]

\* The current run's RunSummary and result, read off the loop locals.
CurrentSummary ==
    StaticSummary(total_revenue, total_opex_sum, total_capex_sum, break_even_month)
    @@ (IF mode = "static" THEN <<>>
        ELSE [total_packs_retired |-> total_packs_retired,
              total_charger_failures |-> total_charger_failures,
              mean_soh_at_end |-> months[Len(months)].avg_soh,
              total_replacement_capex |-> Round2(total_replacement_capex),
              total_salvage_credit |-> Round2(total_salvage_credit)])

NoMonteCarlo == [num_runs |-> 0]

CurrentResult(monte_carlo) ==
    [engine_type |-> IF mode = "static" THEN "static" ELSE "stochastic",
     months |-> months, summary |-> CurrentSummary, monte_carlo |-> monte_carlo]

\* ---- Monte-Carlo aggregation (_run_monte_carlo)
RECURSIVE Insert(_, _)
Insert(x, s) ==
    IF s = <<>> THEN <<x>>
    ELSE IF x <= Head(s) THEN <<x>> \o s
    ELSE <<Head(s)>> \o Insert(x, Tail(s))

RECURSIVE Sort(_)
Sort(s) == IF s = <<>> THEN <<>> ELSE Insert(Head(s), Sort(Tail(s)))

\* np.percentile(xs, q), linear interpolation between closest ranks.  Exact
\* for amounts in hundredths of a currency unit and q in {10, 50, 90}; for
\* months, the int() truncation of orchestrator.py:318-320.
Percentile(xs, q) ==
    LET s == Sort(xs)
        t == (Len(s) - 1) * q
        below == t \div 100
        f == t % 100
    IN  IF f = 0 THEN s[below + 1]
        ELSE s[below + 1] + ((s[below + 2] - s[below + 1]) * f) \div 100

RECURSIVE MaxSeq(_)
MaxSeq(s) == IF Len(s) = 1 THEN Head(s) ELSE Max(Head(s), MaxSeq(Tail(s)))

RECURSIVE MinSeq(_)
MinSeq(s) == IF Len(s) = 1 THEN Head(s) ELSE Min(Head(s), MinSeq(Tail(s)))

Ncfs(ss) == [k \in 1..Len(ss) |-> ss[k].total_net_cash_flow]

\* be_months: the break-even months that are not None.
BeMonths(ss) ==
    LET all == [k \in 1..Len(ss) |-> ss[k].break_even_month]
    IN  SelectSeq(all, LAMBDA b : b # NoMonth)

\* MonteCarloSummary of the collected summaries.
MonteCarloSummary(ss) ==
    LET ncfs == Ncfs(ss)
        be == BeMonths(ss)
        retired == [k \in 1..Len(ss) |-> ss[k].total_packs_retired]
        failures == [k \in 1..Len(ss) |-> ss[k].total_charger_failures]
    IN  [num_runs |-> Len(ss),
         ncf_p10 |-> Percentile(ncfs, 10),
         ncf_p50 |-> Percentile(ncfs, 50),
         ncf_p90 |-> Percentile(ncfs, 90),
         break_even_p10 |-> IF be = <<>> THEN NoMonth ELSE Percentile(be, 10),
         break_even_p50 |-> IF be = <<>> THEN NoMonth ELSE Percentile(be, 50),
         break_even_p90 |-> IF be = <<>> THEN NoMonth ELSE Percentile(be, 90),
         avg_packs_retired |-> RoundHalfEven(SumSeq(retired) * 1000, Len(ss)),
         max_packs_retired |-> MaxSeq(retired),
         avg_charger_failures |-> RoundHalfEven(SumSeq(failures) * 1000, Len(ss))]

\* Mutant: the last of the closest runs instead of the first.
MedianIdxLast(ncfs, p50) ==
    LET dist == [k \in 1..Len(ncfs) |-> Abs(ncfs[k] - p50)]
    IN  (CHOOSE k \in 1..Len(ncfs) :
            /\ dist[k] = MinSeq(dist)
            /\ \A j \in (k + 1)..Len(ncfs) : dist[j] > dist[k]) - 1

\* Mutant: the run farthest from the median.
MedianIdxFarthest(ncfs, p50) ==
    LET dist == [k \in 1..Len(ncfs) |-> Abs(ncfs[k] - p50)]
    IN  (CHOOSE k \in 1..Len(ncfs) :
            /\ dist[k] = MaxSeq(dist)
            /\ \A j \in 1..(k - 1) : dist[j] < dist[k]) - 1

\* median_idx = int(np.argmin(np.abs(ncfs - ncf_p50))): the 0-based index of
\* the first run at the smallest distance.
MedianIdx(ncfs, p50) ==
    LET dist == [k \in 1..Len(ncfs) |-> Abs(ncfs[k] - p50)]
    IN  (CHOOSE k \in 1..Len(ncfs) :
            /\ dist[k] = MinSeq(dist)
            /\ \A j \in 1..(k - 1) : dist[j] > dist[k]) - 1

\* ---- scenarios
BaseSeed(sc) ==
    IF sc.simulation.random_seed # NoSeed THEN sc.simulation.random_seed ELSE DefaultSeed

EnginePack ==
    [cycle_degradation_rate |-> 15000, aggressiveness_index |-> 10,
     calendar_aging_rate |-> 1500, retirement_soh |-> 700000,
     unit_cost |-> 20000, second_life_salvage_value |-> 5000,
     nominal_capacity_wh |-> 1280,
     mtbf_hours |-> 5000, repair_cost_per_event |-> 2000,
     replacement_threshold |-> 3, full_replacement_cost |-> 20000]

EngineCharger ==
    [replacement_threshold |-> 2, repair_cost_per_event |-> 1500,
     full_replacement_cost |-> 7000, purchase_cost_per_slot |-> 8000,
     charging_efficiency_pct |-> 90, mtbf_hours |-> 800]

DemandConfigs ==
    { [distribution |-> "poisson", volatility |-> 15, weekend_factor_pct |-> 60],
      [distribution |-> "gamma", volatility |-> 0, weekend_factor_pct |-> 100],
      [distribution |-> "gamma", volatility |-> 15, weekend_factor_pct |-> 60] }

Prices == {2500, 9000}
Seeds == {NoSeed, 0, 1}

Scenarios ==
    { [vehicle |-> [packs_per_vehicle |-> 2],
       derived |-> [swap_visits_per_vehicle_per_day |-> 5000],
       station |-> [num_stations |-> 1, docks_per_station |-> 2,
                    operating_hours_per_day |-> 18,
                    cabinet_cost |-> 50000, site_prep_cost |-> 30000,
                    grid_connection_cost |-> 20000, security_deposit |-> 10000,
                    software_cost |-> 10000],
       opex |-> [rent_per_month_per_station |-> 20000,
                 auxiliary_power_per_month |-> 2000,
                 preventive_maintenance_per_month_per_station |-> 3000,
                 corrective_maintenance_per_month_per_station |-> 1000,
                 insurance_per_month_per_station |-> 2000,
                 logistics_per_month_per_station |-> 5000,
                 electricity_tariff_per_kwh |-> 850,
                 pack_handling_labor_per_swap |-> 200,
                 overhead_per_month |-> 10000],
       revenue |-> [price_per_swap |-> pr, initial_fleet_size |-> 2,
                    monthly_fleet_additions |-> add],
       chaos |-> [sabotage_per_mille |-> 5],
       demand |-> dm,
       simulation |-> [horizon_months |-> h, engine |-> e,
                       random_seed |-> sd, monte_carlo_runs |-> n]] :
      pr \in Prices, add \in {0, 1}, dm \in DemandConfigs, h \in 1..MaxHorizon,
      e \in {"static", "stochastic"}, sd \in Seeds, n \in 1..MaxRuns }

\* ---- one month's demand in both engines, for a fleet and for twice the fleet
MaxDemandFleet == 4
\* swap_visits_per_vehicle_per_day, in 1/10000
VisitRates == {0, 100, 3440, 10000, 12500, 15000}
NoDemand == [done |-> FALSE]

DemandInit ==
    /\ \E r \in VisitRates, dm \in DemandConfigs :
          dem_scenario = [derived |-> [swap_visits_per_vehicle_per_day |-> r],
                          demand |-> dm,
                          vehicle |-> [packs_per_vehicle |-> 2],
                          revenue |-> [price_per_swap |-> 2500]]
    /\ dem_fleet \in 1..MaxDemandFleet
    /\ dem_static = [f \in {dem_fleet, 2 * dem_fleet} |-> NoDemand]
    /\ dem_generated = [f \in {dem_fleet, 2 * dem_fleet} |-> NoDemand]

DemandIdle ==
    /\ dem_scenario = [derived |-> [swap_visits_per_vehicle_per_day |-> 0],
                       demand |-> [distribution |-> "gamma", volatility |-> 0,
                                   weekend_factor_pct |-> 100],
                       vehicle |-> [packs_per_vehicle |-> 2],
                       revenue |-> [price_per_swap |-> 2500]]
    /\ dem_fleet = 1
    /\ dem_static = [f \in {1, 2} |-> NoDemand]
    /\ dem_generated = [f \in {1, 2} |-> NoDemand]

\* The demand lines of one month of run_simulation.
StaticDemandMonth ==
    \E f \in DOMAIN dem_static :
        /\ ~dem_static[f].done
        /\ LET swap_visits == StaticSwapVisits(dem_scenario, f)
           IN  dem_static' = [dem_static EXCEPT ![f] =
                   [done |-> TRUE,
                    swap_visits |-> swap_visits,
                    total_cycles |-> swap_visits * dem_scenario.vehicle.packs_per_vehicle,
                    monthly_revenue |-> swap_visits * dem_scenario.revenue.price_per_swap]]
        /\ UNCHANGED <<dem_scenario, dem_fleet, dem_generated, notDemand>>

\* generate_monthly_demand and the revenue line of _run_single_stochastic.
GenerateMonthlyDemand ==
    \E f \in DOMAIN dem_generated, u \in 0..4 :
        /\ ~dem_generated[f].done
        /\ LET swap_visits == MonthlyVisits(dem_scenario, f, u)
           IN  dem_generated' = [dem_generated EXCEPT ![f] =
                   [done |-> TRUE,
                    swap_visits |-> swap_visits,
                    total_cycles |-> swap_visits * dem_scenario.vehicle.packs_per_vehicle,
                    monthly_revenue |-> swap_visits * dem_scenario.revenue.price_per_swap]]
        /\ UNCHANGED <<dem_scenario, dem_fleet, dem_static, notDemand>>

\* ---- run_engine as a process
\* Mutant: one generator shared by all runs instead of default_rng(seed).
RunGeneratorShared(sd, old) == old

\* rng = np.random.default_rng(seed)
RunGenerator(sd, old) == SeedState(sd)

\* The locals both monthly loops start from.
BeginLoop ==
    /\ m' = 1
    /\ cumulative_cf' = 0
    /\ break_even_month' = NoMonth
    /\ total_revenue' = 0
    /\ total_opex_sum' = 0
    /\ total_capex_sum' = TotalInitialCapex(scenario, pack, charger)
    /\ total_packs_retired' = 0
    /\ total_charger_failures' = 0
    /\ total_replacement_capex' = 0
    /\ total_salvage_credit' = 0
    /\ months' = <<>>
    /\ ledger' = <<>>

\* _run_single_stochastic up to its monthly loop: a generator seeded with sd,
\* a new DegradationTracker holding the initial packs as cohort 0, a new
\* ChargerReliabilityTracker.
BeginStochasticRun(sd) ==
    /\ seed' = sd
    /\ rng' = RunGenerator(sd, rng)
    /\ BeginLoop
    /\ cohorts' = <<NewCohort(0, 1, TotalPacks(scenario))>>
    /\ next_id' = 1
    /\ deg_month' = 0
    /\ deg_result' = NoDegResult
    /\ age_hours' = [d \in 1..total_docks |-> 0]
    /\ cumulative_failures' = [d \in 1..total_docks |-> 0]
    /\ failures_per_dock' = [d \in 1..total_docks |-> 0]
    /\ rel_month' = 0
    /\ rel_result' = NoRelResult
    /\ UNCHANGED <<auto_replace, pack, charger, total_docks, hours_per_month>>

\* What a finished run leaves behind: its seed, its result, and the unrounded
\* amounts of its months.
FinishedRun ==
    [seed |-> seed, result |-> CurrentResult(NoMonteCarlo), ledger |-> ledger]

EngInit ==
    /\ scenario \in Scenarios
    /\ pc = "call"
    /\ mode = "none"
    /\ call = 1
    /\ run_i = 0
    /\ seed = NoSeed
    /\ rng = 0
    /\ m = 0
    /\ cumulative_cf = 0
    /\ break_even_month = NoMonth
    /\ total_revenue = 0
    /\ total_opex_sum = 0
    /\ total_capex_sum = 0
    /\ total_packs_retired = 0
    /\ total_charger_failures = 0
    /\ total_replacement_capex = 0
    /\ total_salvage_credit = 0
    /\ months = <<>>
    /\ ledger = <<>>
    /\ summaries = <<>>
    /\ mc = NoMonteCarlo
    /\ median_idx = 0
    /\ runs = <<>>
    /\ results = <<>>

\* The engine while only a tracker is exercised.
EngIdle ==
    /\ EngInit
    /\ scenario = CHOOSE sc \in Scenarios : TRUE

\* run_engine(scenario, charger): dispatch on the engine and the run count.
RunEngine ==
    /\ UNCHANGED notEng
    /\ pc = "call"
    /\ pc' = "loop"
    /\ run_i' = 0
    /\ summaries' = <<>>
    /\ mc' = NoMonteCarlo
    /\ median_idx' = 0
    /\ runs' = <<>>
    /\ IF scenario.simulation.engine = "static"
       THEN /\ mode' = "static"
            /\ BeginLoop
            /\ UNCHANGED <<seed, rng, trackerVars, relVars>>
       ELSE /\ mode' = IF scenario.simulation.monte_carlo_runs > 1
                       THEN "collect" ELSE "single"
            /\ BeginStochasticRun(BaseSeed(scenario))
    /\ UNCHANGED <<scenario, call, results>>

\* One iteration of run_simulation's monthly loop.
StaticMonth ==
    /\ UNCHANGED notEng
    /\ pc = "loop"
    /\ mode = "static"
    /\ m <= scenario.simulation.horizon_months
    /\ LET fleet_size == FleetSize(scenario, m)
           swap_visits == StaticSwapVisits(scenario, fleet_size)
           total_cycles == swap_visits * scenario.vehicle.packs_per_vehicle
           rev == swap_visits * scenario.revenue.price_per_swap
           opex == StaticOpex(scenario, pack, charger, total_cycles)
           capex == StaticCapex(scenario, pack, charger, m)
           cum == CumulativeAfter(cumulative_cf, rev - opex - capex)
       IN  /\ cumulative_cf' = cum
           /\ break_even_month' = BreakEvenAfter(break_even_month, cum, m)
           /\ total_revenue' = total_revenue + rev
           /\ total_opex_sum' = total_opex_sum + opex
           /\ total_capex_sum' = IF m > 1 THEN total_capex_sum + capex
                                 ELSE total_capex_sum
           /\ months' = Append(months,
                  BaseSnapshot(m, fleet_size, swap_visits, total_cycles,
                               rev, opex, capex, cumulative_cf))
           /\ ledger' = Append(ledger, LedgerLine(rev, opex, capex, cumulative_cf))
    /\ m' = m + 1
    /\ UNCHANGED <<scenario, pc, mode, call, run_i, seed, rng,
                   total_packs_retired, total_charger_failures,
                   total_replacement_capex, total_salvage_credit,
                   summaries, mc, median_idx, runs, results,
                   trackerVars, relVars>>

\* One iteration of _run_single_stochastic's monthly loop.
StochasticMonth ==
    /\ UNCHANGED notEng
    /\ pc = "loop"
    /\ mode # "static"
    /\ m <= scenario.simulation.horizon_months
    /\ LET fleet_size == FleetSize(scenario, m)
           swap_visits == MonthlyVisits(scenario, fleet_size, rng)
           u1 == IF DemandDraws(scenario) THEN RngAdvance(rng) ELSE rng
           total_cycles == swap_visits * scenario.vehicle.packs_per_vehicle
           deg == DegStep(pack, auto_replace, cohorts, next_id, m, total_cycles)
           packs_retired == deg.result.packs_retired
           replacement_capex == packs_retired * pack.unit_cost
           salvage_credit == packs_retired * pack.second_life_salvage_value
           fails == FailureSample(total_docks, u1)
           rel == RelStep(charger, total_docks, hours_per_month,
                          age_hours, cumulative_failures, fails)
           u2 == IF total_docks > 0 THEN RngAdvance(u1) ELSE u1
           rev == swap_visits * scenario.revenue.price_per_swap
           opex == StochasticOpex(scenario, pack, charger, total_cycles,
                                  ActivePackCount(deg.cohorts), rel.result.repair_cost)
           capex == StochasticCapex(scenario, pack, charger, m, packs_retired,
                                    rel.result.replacement_cost)
           new_packs == NewPacks(scenario, m)
           cum == CumulativeAfter(cumulative_cf, rev - opex - capex)
       IN  /\ rng' = u2
           /\ cohorts' = IF new_packs > 0
                         THEN Append(deg.cohorts, NewCohort(deg.next_id, m, new_packs))
                         ELSE deg.cohorts
           /\ next_id' = IF new_packs > 0 THEN deg.next_id + 1 ELSE deg.next_id
           /\ deg_month' = m
           /\ deg_result' = deg.result
           /\ age_hours' = rel.age_hours
           /\ cumulative_failures' = rel.cumulative_failures
           /\ failures_per_dock' = fails
           /\ rel_month' = m
           /\ rel_result' = rel.result
           /\ cumulative_cf' = cum
           /\ break_even_month' = BreakEvenAfter(break_even_month, cum, m)
           /\ total_revenue' = total_revenue + rev
           /\ total_opex_sum' = total_opex_sum + opex
           /\ total_capex_sum' = IF m > 1 THEN total_capex_sum + capex
                                 ELSE total_capex_sum
           /\ total_packs_retired' = total_packs_retired + packs_retired
           /\ total_charger_failures' = total_charger_failures + rel.result.failures
           /\ total_replacement_capex' =
                  ReplacementCapexAfter(total_replacement_capex, replacement_capex,
                                        salvage_credit)
           /\ total_salvage_credit' = total_salvage_credit + salvage_credit
           /\ months' = Append(months,
                  BaseSnapshot(m, fleet_size, swap_visits, total_cycles,
                               rev, opex, capex, cumulative_cf)
                  @@ [avg_soh |-> deg.result.avg_soh,
                      packs_retired_this_month |-> packs_retired,
                      packs_replaced_this_month |-> deg.result.packs_replaced,
                      replacement_capex_this_month |->
                          Round2(NetReplacementCost(pack, packs_retired)),
                      salvage_credit_this_month |-> Round2(salvage_credit),
                      charger_failures_this_month |-> rel.result.failures])
           /\ ledger' = Append(ledger, LedgerLine(rev, opex, capex, cumulative_cf))
    /\ m' = m + 1
    /\ UNCHANGED <<scenario, pc, mode, call, run_i, seed,
                   summaries, mc, median_idx, runs, results,
                   auto_replace, pack, charger, total_docks, hours_per_month>>

\* run_simulation returns after its last month.
StaticReturn ==
    /\ UNCHANGED notEng
    /\ pc = "loop"
    /\ mode = "static"
    /\ m > scenario.simulation.horizon_months
    /\ results' = Append(results, CurrentResult(NoMonteCarlo))
    /\ runs' = Append(runs, FinishedRun)
    /\ pc' = "returned"
    /\ UNCHANGED <<scenario, mode, call, run_i, seed, rng, loopVars,
                   summaries, mc, median_idx, trackerVars, relVars>>

\* run_engine returns the single stochastic run.
SingleReturn ==
    /\ UNCHANGED notEng
    /\ pc = "loop"
    /\ mode = "single"
    /\ m > scenario.simulation.horizon_months
    /\ results' = Append(results, CurrentResult(NoMonteCarlo))
    /\ runs' = Append(runs, FinishedRun)
    /\ pc' = "returned"
    /\ UNCHANGED <<scenario, mode, call, run_i, seed, rng, loopVars,
                   summaries, mc, median_idx, trackerVars, relVars>>

\* _run_monte_carlo's collecting loop: keep run i's summary and start run
\* i + 1 with seed base_seed + (i + 1), or leave the loop.
McCollect ==
    /\ UNCHANGED notEng
    /\ pc = "loop"
    /\ mode = "collect"
    /\ m > scenario.simulation.horizon_months
    /\ summaries' = Append(summaries, CurrentSummary)
    /\ runs' = Append(runs, FinishedRun)
    /\ run_i' = run_i + 1
    /\ IF run_i + 1 < scenario.simulation.monte_carlo_runs
       THEN /\ BeginStochasticRun(BaseSeed(scenario) + run_i + 1)
            /\ pc' = "loop"
       ELSE /\ pc' = "aggregate"
            /\ UNCHANGED <<seed, rng, loopVars, trackerVars, relVars>>
    /\ UNCHANGED <<scenario, mode, call, mc, median_idx, results>>

\* The percentile summary, the index of the median run, and the start of its
\* re-run.
McAggregate ==
    /\ UNCHANGED notEng
    /\ pc = "aggregate"
    /\ mc' = MonteCarloSummary(summaries)
    /\ median_idx' = MedianIdx(Ncfs(summaries), mc'.ncf_p50)
    /\ BeginStochasticRun(BaseSeed(scenario) + median_idx')
    /\ mode' = "representative"
    /\ pc' = "loop"
    /\ UNCHANGED <<scenario, call, run_i, summaries, runs, results>>

\* representative.model_copy(update={"monte_carlo": mc})
McReturn ==
    /\ UNCHANGED notEng
    /\ pc = "loop"
    /\ mode = "representative"
    /\ m > scenario.simulation.horizon_months
    /\ results' = Append(results, CurrentResult(mc))
    /\ runs' = Append(runs, FinishedRun)
    /\ pc' = "returned"
    /\ UNCHANGED <<scenario, mode, call, run_i, seed, rng, loopVars,
                   summaries, mc, median_idx, trackerVars, relVars>>

\* The caller calls run_engine again with the same scenario and charger.
CallAgain ==
    /\ UNCHANGED notEng
    /\ pc = "returned"
    /\ call < MaxCalls
    /\ call' = call + 1
    /\ pc' = "call"
    /\ UNCHANGED <<scenario, mode, run_i, seed, rng, loopVars,
                   summaries, mc, median_idx, runs, results,
                   trackerVars, relVars>>

EngNext ==
    \/ RunEngine
    \/ StaticMonth
    \/ StochasticMonth
    \/ StaticReturn
    \/ SingleReturn
    \/ McCollect
    \/ McAggregate
    \/ McReturn
    \/ CallAgain

EngineInit ==
    /\ EngInit
    /\ cohorts = <<>>
    /\ next_id = 0
    /\ auto_replace = TRUE
    /\ pack = EnginePack
    /\ deg_month = 0
    /\ deg_result = NoDegResult
    /\ charger = EngineCharger
    /\ total_docks = TotalDocks(scenario)
    /\ hours_per_month = HoursPerMonth(scenario.station.operating_hours_per_day)
    /\ age_hours = <<>>
    /\ cumulative_failures = <<>>
    /\ failures_per_dock = <<>>
    /\ rel_month = 0
    /\ rel_result = NoRelResult


\* =========================================================================
\* Monte-Carlo aggregation as a function of the collected summaries
\* (engine/orchestrator.py, _run_monte_carlo)
\* =========================================================================
\* Summaries a run can end with (total_net_cash_flow in thousandths).
RunOutcomes ==
    { [total_net_cash_flow |-> -40000, break_even_month |-> NoMonth,
       total_packs_retired |-> 6, total_charger_failures |-> 2],
      [total_net_cash_flow |-> -10000, break_even_month |-> NoMonth,
       total_packs_retired |-> 6, total_charger_failures |-> 0],
      [total_net_cash_flow |-> 20000, break_even_month |-> 3,
       total_packs_retired |-> 0, total_charger_failures |-> 1],
      [total_net_cash_flow |-> 50000, break_even_month |-> 2,
       total_packs_retired |-> 0, total_charger_failures |-> 0] }

\* The summaries in the order they were collected: position k holds the
\* summary of run agg_order[k].
Collected(rs, order) == [k \in 1..Len(order) |-> rs[order[k]]]

\* Everything after the collecting loop: the percentile summary and the run
\* that base_seed + median_idx re-runs, i.e. the run collected at median_idx.
Aggregate(rs, order) ==
    LET ss == Collected(rs, order)
        summary == MonteCarloSummary(ss)
    IN  [mc |-> summary,
         median_idx |-> MedianIdx(Ncfs(ss), summary.ncf_p50),
         representative |-> order[MedianIdx(Ncfs(ss), summary.ncf_p50) + 1]]

NoOutcome == [median_idx |-> -1]

IdentityOrder(n) == [k \in 1..n |-> k]

\* order with positions k and k + 1 exchanged
SwapAt(order, k) ==
    [j \in 1..Len(order) |->
        IF j = k THEN order[k + 1] ELSE IF j = k + 1 THEN order[k] ELSE order[j]]

\* ---- pilot sizing's reading of a Monte-Carlo result (engine/optimizer.py)
NotEvaluated == [evaluated |-> FALSE]

ConfidenceLevels == {10, 50, 90}
TargetMetrics == {"positive_npv", "positive_ncf", "break_even_within"}
BreakEvenTargets == {2, 3}
\* NPV of the representative run's DCF table: below or above zero.
NpvValues == {-1000, 1000}

\* The ncf _evaluate_fleet_size returns for a result with a Monte-Carlo
\* summary: P10 at confidence >= 90, P50 at >= 50, P90 below.
EvaluatedNcf(summary, confidence_pct) ==
    IF confidence_pct >= 90 THEN summary.ncf_p10
    ELSE IF confidence_pct >= 50 THEN summary.ncf_p50
    ELSE summary.ncf_p90

\* The break-even month it returns, chosen the same way.
EvaluatedBreakEven(summary, confidence_pct) ==
    IF confidence_pct >= 90 THEN summary.break_even_p10
    ELSE IF confidence_pct >= 50 THEN summary.break_even_p50
    ELSE summary.break_even_p90

\* _check_target
CheckTarget(target_metric, npv, ncf, be_month, break_even_target) ==
    IF target_metric = "positive_npv" THEN npv > 0
    ELSE IF target_metric = "positive_ncf" THEN ncf > 0
    ELSE IF target_metric = "break_even_within"
    THEN be_month # NoMonth /\ be_month <= break_even_target
    ELSE FALSE

\* One evaluation of find_minimum_fleet_size's loop on a Monte-Carlo result.
EvaluateFleetSize ==
    /\ agg_out # NoOutcome
    /\ ~pilot.evaluated
    /\ \E confidence_pct \in ConfidenceLevels, target_metric \in TargetMetrics,
          break_even_target \in BreakEvenTargets, npv \in NpvValues :
        LET ncf == EvaluatedNcf(agg_out.mc, confidence_pct)
            be_month == EvaluatedBreakEven(agg_out.mc, confidence_pct)
        IN  pilot' = [evaluated |-> TRUE,
                      confidence_pct |-> confidence_pct,
                      target_metric |-> target_metric,
                      break_even_target |-> break_even_target,
                      npv |-> npv, ncf |-> ncf, break_even_month |-> be_month,
                      passed |-> CheckTarget(target_metric, npv, ncf, be_month,
                                             break_even_target)]
    /\ UNCHANGED <<agg_runs, agg_order, agg_out, notAgg>>

AggInit ==
    /\ \E n \in 2..MaxRuns : agg_runs \in [1..n -> RunOutcomes]
    /\ agg_order = IdentityOrder(Len(agg_runs))
    /\ agg_out = NoOutcome
    /\ pilot = NotEvaluated

AggIdle ==
    /\ agg_runs = <<>>
    /\ agg_order = <<>>
    /\ agg_out = NoOutcome
    /\ pilot = NotEvaluated

\* Two runs finish in the other order.
Reorder ==
    /\ agg_out = NoOutcome
    /\ \E k \in 1..(Len(agg_order) - 1) : agg_order' = SwapAt(agg_order, k)
    /\ UNCHANGED <<agg_runs, agg_out, pilot, notAgg>>

\* The aggregation of the summaries as collected.
AggregateCollected ==
    /\ agg_out = NoOutcome
    /\ agg_out' = Aggregate(agg_runs, agg_order)
    /\ UNCHANGED <<agg_runs, agg_order, pilot, notAgg>>

\* =========================================================================
\* Pilot sizing (engine/optimizer.py)
\* =========================================================================
MaxFleet == 6
MaxIterations == 3
\* best_passing = None
NoFleet == 0

\* Mutant: keeps the first passing size instead of the latest.
BestPassingAfterFirst(best, mid, passed) ==
    IF passed /\ best = NoFleet THEN mid ELSE best

\* if passed: best_passing = mid
BestPassingAfter(best, mid, passed) == IF passed THEN mid ELSE best

\* if passed: hi = mid - 1  (try smaller)
HiAfter(h, mid, passed) == IF passed THEN mid - 1 ELSE h

\* Mutant: a failing size moves lo two sizes up.
LoAfterSkipping(l, mid, passed) == IF passed THEN l ELSE mid + 2

\* Mutant: a failing size stays in the interval.
LoAfterKeepingMid(l, mid, passed) == IF passed THEN l ELSE mid

\* else: lo = mid + 1  (need bigger)
LoAfter(l, mid, passed) == IF passed THEN l ELSE mid + 1

OptInit ==
    /\ min_fleet \in 1..3
    /\ max_fleet \in 1..MaxFleet
    /\ max_iterations \in 0..MaxIterations
    /\ passes \in [1..MaxFleet -> BOOLEAN]
    /\ lo = min_fleet
    /\ hi = max_fleet
    /\ iterations = 0
    /\ best_passing = NoFleet
    /\ search_log = <<>>
    /\ evaluations = <<>>
    /\ sizing = [returned |-> FALSE]

OptIdle ==
    /\ min_fleet = 1
    /\ max_fleet = 1
    /\ max_iterations = 0
    /\ passes = [f \in 1..MaxFleet |-> FALSE]
    /\ lo = 1
    /\ hi = 1
    /\ iterations = 0
    /\ best_passing = NoFleet
    /\ search_log = <<>>
    /\ evaluations = <<>>
    /\ sizing = [returned |-> FALSE]

\* One iteration of find_minimum_fleet_size's while loop.
SearchStep ==
    /\ ~sizing.returned
    /\ lo <= hi
    /\ iterations < max_iterations
    /\ LET mid == (lo + hi) \div 2
           passed == passes[mid]
       IN  /\ iterations' = iterations + 1
           /\ evaluations' = Append(evaluations, mid)
           /\ search_log' = Append(search_log, [fleet_size |-> mid, passed |-> passed])
           /\ best_passing' = BestPassingAfter(best_passing, mid, passed)
           /\ hi' = HiAfter(hi, mid, passed)
           /\ lo' = LoAfter(lo, mid, passed)
    /\ UNCHANGED <<min_fleet, max_fleet, max_iterations, passes, sizing, notOpt>>

\* The loop is left and the PilotSizingResult is built.
SearchReturn ==
    /\ ~sizing.returned
    /\ ~(lo <= hi /\ iterations < max_iterations)
    /\ sizing' = [returned |-> TRUE,
                  achieved |-> best_passing # NoFleet,
                  recommended_fleet_size |->
                      IF best_passing # NoFleet THEN best_passing ELSE max_fleet,
                  search_iterations |-> iterations,
                  search_log |-> search_log]
    /\ UNCHANGED <<min_fleet, max_fleet, max_iterations, passes, lo, hi,
                   iterations, best_passing, search_log, evaluations, notOpt>>

\* ---- find_optimal_scale: the listed fleet sizes, evaluated in turn
MaxSizes == 3
ScaleSizes == {50, 100}
\* What _evaluate_fleet_size returns for a fleet size (money in thousandths).
ScaleOutcomes ==
    [npv : {-100000, 100000, 200000}, ncf : {-1000, 1000}, be_month : {NoMonth, 2}]
\* best_npv_val = None
NoNpv == -999999999
NoScale == [returned |-> FALSE, raised |-> FALSE]

\* Mutant: every passing size becomes the best one.
TakesCandidateAnyPassing(passed, npv, best) == passed

\* if passed: if best_npv_val is None or (npv is not None and npv > best_npv_val)
TakesCandidate(passed, npv, best) == passed /\ (best = NoNpv \/ npv > best)

\* passed, as find_optimal_scale computes it for one fleet size
ScalePassed(fs) ==
    LET o == scale_outcomes[fs]
    IN  CheckTarget(scale_metric, o.npv, o.ncf, o.be_month, MaxHorizon)

ScaleInit ==
    /\ \E n \in 0..MaxSizes : fleet_sizes \in [1..n -> ScaleSizes]
    /\ scale_metric \in TargetMetrics
    /\ scale_outcomes \in [ScaleSizes -> ScaleOutcomes]
    /\ scale_i = 0
    /\ best_fleet = NoFleet
    /\ best_npv_val = NoNpv
    /\ scale_log = <<>>
    /\ scale_result = NoScale

ScaleIdle ==
    /\ fleet_sizes = <<>>
    /\ scale_metric = "positive_npv"
    /\ scale_outcomes = [fs \in ScaleSizes |-> [npv |-> 100000, ncf |-> 1000, be_month |-> 2]]
    /\ scale_i = 0
    /\ best_fleet = NoFleet
    /\ best_npv_val = NoNpv
    /\ scale_log = <<>>
    /\ scale_result = NoScale

\* One iteration of "for fs in fleet_sizes".
ScaleEvaluate ==
    /\ ~scale_result.returned /\ ~scale_result.raised
    /\ scale_i < Len(fleet_sizes)
    /\ LET fs == fleet_sizes[scale_i + 1]
           o == scale_outcomes[fs]
           passed == ScalePassed(fs)
           takes == TakesCandidate(passed, o.npv, best_npv_val)
       IN  /\ scale_i' = scale_i + 1
           /\ scale_log' = Append(scale_log, [fleet_size |-> fs, npv |-> Round2(o.npv),
                                              passed |-> passed])
           /\ best_fleet' = IF takes THEN fs ELSE best_fleet
           /\ best_npv_val' = IF takes THEN o.npv ELSE best_npv_val
    /\ UNCHANGED <<fleet_sizes, scale_metric, scale_outcomes, scale_result, notScale>>

\* The loop is over and the PilotSizingResult is built.
ScaleReturn ==
    /\ ~scale_result.returned /\ ~scale_result.raised
    /\ scale_i = Len(fleet_sizes)
    /\ best_fleet # NoFleet \/ fleet_sizes # <<>>
    /\ scale_result' = [returned |-> TRUE, raised |-> FALSE,
                        achieved |-> best_fleet # NoFleet,
                        recommended_fleet_size |->
                            IF best_fleet # NoFleet THEN best_fleet
                            ELSE fleet_sizes[Len(fleet_sizes)],
                        best_npv |-> IF best_npv_val # NoNpv THEN Round2(best_npv_val)
                                     ELSE NoNpv,
                        search_iterations |-> Len(fleet_sizes),
                        search_log |-> scale_log]
    /\ UNCHANGED <<fleet_sizes, scale_metric, scale_outcomes, scale_i, best_fleet,
                   best_npv_val, scale_log, notScale>>

\* fleet_sizes[-1] of an empty list: IndexError, no result is returned.
ScaleRaise ==
    /\ ~scale_result.returned /\ ~scale_result.raised
    /\ scale_i = Len(fleet_sizes)
    /\ best_fleet = NoFleet /\ fleet_sizes = <<>>
    /\ scale_result' = [returned |-> FALSE, raised |-> TRUE]
    /\ UNCHANGED <<fleet_sizes, scale_metric, scale_outcomes, scale_i, best_fleet,
                   best_npv_val, scale_log, notScale>>

\* ---- check_charger_recommendation (engine/field_data.py)
\* Variants are numbered in the order of charger_variants, which is also the
\* order of the keys of original_npvs; NPVs are in thousandths.
MaxVariants == 2
OriginalNpvs == {0, 98000, 100000}
\* dcf.npv of the re-run with a variant's tuned parameters
RevisedNpvs == {80000, 96000, 100000, 120000}
Thresholds == {5, 10}

\* sorted(npvs.items(), key=lambda x: x[1], reverse=True)[0][0]
BestOf(npvs) ==
    CHOOSE i \in 1..Len(npvs) :
        \A j \in 1..Len(npvs) : npvs[i] > npvs[j] \/ (npvs[i] = npvs[j] /\ i <= j)

\* change_pct >= threshold_pct, with
\* change_pct = abs(npv_delta / original_npv * 100) if original_npv != 0 else 0
ChangeAtLeast(original_npv, revised_npv, pct) ==
    IF original_npv # 0
    THEN Abs(revised_npv - original_npv) * 100 >= pct * Abs(original_npv)
    ELSE 0 >= pct

Severity(original_npv, revised_npv) ==
    IF ChangeAtLeast(original_npv, revised_npv, 30) THEN "critical"
    ELSE IF ChangeAtLeast(original_npv, revised_npv, 15) THEN "warning"
    ELSE "info"

\* revised_npvs: the original NPVs, overwritten by the alerts' revised_npv
RevisedFromAlerts(npvs, al) ==
    [i \in 1..Len(npvs) |->
        IF \E k \in 1..Len(al) : al[k].affected_charger = i
        THEN LET last == CHOOSE k \in 1..Len(al) :
                            /\ al[k].affected_charger = i
                            /\ \A l \in 1..Len(al) : al[l].affected_charger = i => l <= k
             IN  al[last].revised_npv
        ELSE npvs[i]]

RecInit ==
    /\ \E n \in 1..MaxVariants :
          /\ original_npvs \in [1..n -> OriginalNpvs]
          /\ tuned_npvs \in [1..n -> RevisedNpvs]
          /\ auto_tuned \in [1..n -> BOOLEAN]
    /\ threshold_pct \in Thresholds
    /\ rec_i = 0
    /\ alerts = <<>>
    /\ rec_returned = FALSE

RecIdle ==
    /\ original_npvs = <<>>
    /\ tuned_npvs = <<>>
    /\ auto_tuned = <<>>
    /\ threshold_pct = 10
    /\ rec_i = 0
    /\ alerts = <<>>
    /\ rec_returned = FALSE

\* A variant without tune result, or with one without parameters: continue.
RecSkip ==
    /\ ~rec_returned
    /\ rec_i < Len(original_npvs)
    /\ ~auto_tuned[rec_i + 1]
    /\ rec_i' = rec_i + 1
    /\ UNCHANGED <<original_npvs, tuned_npvs, auto_tuned, threshold_pct, alerts,
                   rec_returned, notRec>>

\* A tuned variant: the engine is re-run and the NPV change is compared
\* with the threshold.
RecEvaluate ==
    /\ ~rec_returned
    /\ rec_i < Len(original_npvs)
    /\ auto_tuned[rec_i + 1]
    /\ LET c == rec_i + 1
           original_npv == original_npvs[c]
           revised_npv == tuned_npvs[c]
       IN  \E alert_type \in {"mtbf_drift", "cost_overrun"} :
              alerts' = IF ChangeAtLeast(original_npv, revised_npv, threshold_pct)
                        THEN Append(alerts,
                                 [alert_type |-> alert_type,
                                  severity |-> Severity(original_npv, revised_npv),
                                  affected_charger |-> c,
                                  original_npv |-> Round2(original_npv),
                                  revised_npv |-> Round2(revised_npv),
                                  npv_delta |-> Round2(revised_npv - original_npv)])
                        ELSE alerts
    /\ rec_i' = rec_i + 1
    /\ UNCHANGED <<original_npvs, tuned_npvs, auto_tuned, threshold_pct, rec_returned,
                   notRec>>

\* After the loop: the ranking check, and the alerts are returned.
RecReturn ==
    /\ ~rec_returned
    /\ rec_i = Len(original_npvs)
    /\ alerts' =
          IF Len(original_npvs) >= 2 /\ Len(alerts) >= 1
          THEN LET orig_best == BestOf(original_npvs)
                   new_best == BestOf(RevisedFromAlerts(original_npvs, alerts))
               IN  IF new_best # orig_best
                   THEN Append(alerts, [alert_type |-> "ranking_change",
                                        severity |-> "critical",
                                        affected_charger |-> new_best])
                   ELSE alerts
          ELSE alerts
    /\ rec_returned' = TRUE
    /\ UNCHANGED <<original_npvs, tuned_npvs, auto_tuned, threshold_pct, rec_i, notRec>>

\* =========================================================================
\* Internal rate of return (finance/dcf.py)
\* =========================================================================
\* Annual rates are positions on the bracket [-0.5, 10.0]: position p is the
\* rate -0.5 + 10.5 * p / RateUnits, so every midpoint the bisection can
\* reach before the interval is narrower than tol is a whole position.
RateUnits == 1073741824
MaxFlows == 3
FlowChoices == {-100000, 0, 100000}
MaxIterChoices == {0, 3, 200}
\* return None
NoIrr == -1
NotComputed == [returned |-> FALSE]

\* What compute_npv gives for the cash flows as a function of the rate: its
\* root lies at position `at` (exact) or between `at` and `at` + 1, and
\* abs(npv) < tol holds within `near` positions of it.  A root at RateUnits
\* that is not exact is a root outside the bracket.
NpvCurves ==
    [at : {1, 51130563, 536870912, 805306368, RateUnits}, exact : BOOLEAN,
     near : {0, 4096}]

\* the sign of compute_npv(cash_flows, rate at position q), up to the
\* direction of the curve
NpvSign(curve, q) ==
    IF curve.exact /\ q = curve.at THEN 0
    ELSE IF q <= curve.at THEN 1 ELSE -1

\* abs(npv_mid) < tol
NpvWithinTol(curve, q) ==
    \/ curve.exact /\ q = curve.at
    \/ Abs(q - curve.at) < curve.near

\* high - low < tol, tol = 1e-8: 10.5 * width / RateUnits < 1e-8
IntervalWithinTol(width) ==
    IF width > 1 THEN FALSE ELSE width * 1050000000 < RateUnits

\* has_positive and has_negative
HasSignChange(flows) ==
    /\ \E k \in 1..Len(flows) : flows[k] > 0
    /\ \E k \in 1..Len(flows) : flows[k] < 0

IrrInit ==
    /\ \E n \in 0..MaxFlows : cash_flows \in [1..n -> FlowChoices]
    /\ max_iter \in MaxIterChoices
    /\ npv_curve \in NpvCurves
    /\ irr_low = 0
    /\ irr_high = RateUnits
    /\ irr_iter = 0
    /\ irr = NotComputed

IrrIdle ==
    /\ cash_flows = <<>>
    /\ max_iter = 0
    /\ npv_curve = [at |-> 1, exact |-> FALSE, near |-> 0]
    /\ irr_low = 0
    /\ irr_high = RateUnits
    /\ irr_iter = 0
    /\ irr = NotComputed

\* The two early returns: fewer than two flows, or no sign change.
IrrReturnNone ==
    /\ ~irr.returned
    /\ Len(cash_flows) < 2 \/ ~HasSignChange(cash_flows)
    /\ irr' = [returned |-> TRUE, value |-> NoIrr, via |-> "no_sign_change"]
    /\ UNCHANGED <<cash_flows, max_iter, npv_curve, irr_low, irr_high, irr_iter,
                   notIrr>>

\* One iteration of "for _ in range(max_iter)".
IrrIterate ==
    /\ ~irr.returned
    /\ Len(cash_flows) >= 2 /\ HasSignChange(cash_flows)
    /\ irr_iter < max_iter
    /\ LET mid == (irr_low + irr_high) \div 2
           crosses == NpvSign(npv_curve, irr_low) * NpvSign(npv_curve, mid) < 0
           new_high == IF crosses THEN mid ELSE irr_high
           new_low == IF crosses THEN irr_low ELSE mid
       IN  /\ irr_iter' = irr_iter + 1
           /\ IF NpvWithinTol(npv_curve, mid)
              THEN /\ irr' = [returned |-> TRUE, value |-> mid, via |-> "npv_tol"]
                   /\ UNCHANGED <<irr_low, irr_high>>
              ELSE /\ irr_high' = new_high
                   /\ irr_low' = new_low
                   /\ irr' = IF IntervalWithinTol(new_high - new_low)
                             THEN [returned |-> TRUE, value |-> mid,
                                   via |-> "interval_tol"]
                             ELSE irr
    /\ UNCHANGED <<cash_flows, max_iter, npv_curve, notIrr>>

\* The loop has run max_iter times without returning:
\* return (low + high) / 2.
IrrExhausted ==
    /\ ~irr.returned
    /\ Len(cash_flows) >= 2 /\ HasSignChange(cash_flows)
    /\ irr_iter = max_iter
    /\ irr' = [returned |-> TRUE, value |-> (irr_low + irr_high) \div 2,
               via |-> "exhausted"]
    /\ UNCHANGED <<cash_flows, max_iter, npv_curve, irr_low, irr_high, irr_iter,
                   notIrr>>

\* =========================================================================
\* Debt schedule and DSCR (finance/dscr.py)
\* =========================================================================
\* The floats of build_debt_schedule (loan, emi, balance, interest,
\* principal) are in millionths; the rounded row fields and all other money
\* are in thousandths; the monthly interest rate is in thousandths per
\* month, DSCR values and the covenant threshold in ten-thousandths.
MaxTenor == 4
MaxGrace == 2
\* float("inf")
Infinity == 999999999
\* Scale of the compounding factor (1 + monthly_rate) ** amort_months.
FactorScale == 1000000

\* round(x, 2) of an amount in millionths, in thousandths
RoundCent(x) == 10 * RoundHalfEven(x, 10000)

\* loan = total_initial_capex * debt_pct_of_capex (percent)
LoanAmount(capex, fin) == capex * fin.debt_pct_of_capex * 10

\* (1 + monthly_rate) ** n
RECURSIVE Factor(_, _)
Factor(rate, n) ==
    IF n = 0 THEN FactorScale
    ELSE RoundHalfEven(Factor(rate, n - 1) * (1000 + rate), 1000)

\* The EMI of the amortization period.
Emi(loan, fin) ==
    LET amort_months == fin.loan_tenor_months - fin.grace_period_months
        factor == Factor(fin.monthly_rate, amort_months)
    IN  IF fin.monthly_rate > 0 /\ amort_months > 0
        THEN MulDiv(RoundHalfEven(loan * fin.monthly_rate, 1000), factor,
                    factor - FactorScale)
        ELSE IF amort_months > 0 THEN RoundHalfEven(loan, amort_months)
        ELSE 0

NumMonths(fin, horizon_months) == Min(fin.loan_tenor_months, horizon_months)

\* Mutant: the grace period also repays principal.
PrincipalOfMonthNoGrace(fin, month, emi, interest, bal) == Min(emi - interest, bal)

\* principal of month m: 0 in the grace period, else min(emi - interest, balance)
PrincipalOfMonth(fin, month, emi, interest, bal) ==
    IF month <= fin.grace_period_months THEN 0 ELSE Min(emi - interest, bal)

\* One iteration of build_debt_schedule's loop: the row it appends, the
\* unrounded amounts behind it, and the balance it carries on.
DebtMonthOf(fin, month, emi, bal) ==
    LET interest == RoundHalfEven(bal * fin.monthly_rate, 1000)
        principal == PrincipalOfMonth(fin, month, emi, interest, bal)
        payment == interest + principal
        closing == bal - principal
    IN  [row |-> [month |-> month,
                  opening_balance |-> RoundCent(bal),
                  interest |-> RoundCent(interest),
                  principal |-> RoundCent(principal),
                  emi |-> RoundCent(payment),
                  closing_balance |-> RoundCent(Max(closing, 0))],
         exact |-> [opening_balance |-> bal, interest |-> interest,
                    principal |-> principal, closing_balance |-> Max(closing, 0)],
         balance |-> Max(closing, 0)]

NoSchedule == [built |-> FALSE]
NoDscr == [computed |-> FALSE]

FinanceConfigs ==
    { [debt_pct_of_capex |-> pct, monthly_rate |-> rate, loan_tenor_months |-> tenor,
       grace_period_months |-> grace, dscr_covenant_threshold |-> 12000] :
      pct \in {0, 70, 100}, rate \in {0, 10, 40}, tenor \in 1..MaxTenor,
      grace \in 0..MaxGrace }

DebtInit ==
    /\ finance \in FinanceConfigs
    /\ debt_capex \in {0, 10000}
    /\ debt_horizon \in 1..MaxHorizon
    /\ debt_m = 1
    /\ balance = LoanAmount(debt_capex, finance)
    /\ debt_rows = <<>>
    /\ debt_exact = <<>>
    /\ debt = NoSchedule
    /\ snaps = <<>>
    /\ dscr = NoDscr

DebtIdle ==
    /\ finance = CHOOSE f \in FinanceConfigs : TRUE
    /\ debt_capex = 0
    /\ debt_horizon = 1
    /\ debt_m = 1
    /\ balance = 0
    /\ debt_rows = <<>>
    /\ debt_exact = <<>>
    /\ debt = NoSchedule
    /\ snaps = <<>>
    /\ dscr = NoDscr

\* One month of the amortization loop.
DebtMonth ==
    /\ ~debt.built
    /\ LoanAmount(debt_capex, finance) > 0
    /\ debt_m <= NumMonths(finance, debt_horizon)
    /\ LET r == DebtMonthOf(finance, debt_m,
                            Emi(LoanAmount(debt_capex, finance), finance), balance)
       IN  /\ debt_rows' = Append(debt_rows, r.row)
           /\ debt_exact' = Append(debt_exact, r.exact)
           /\ balance' = r.balance
    /\ debt_m' = debt_m + 1
    /\ UNCHANGED <<finance, debt_capex, debt_horizon, debt, snaps, dscr, notDebt>>

\* build_debt_schedule returns: at once without a loan, else after the loop.
DebtReturn ==
    /\ ~debt.built
    /\ \/ LoanAmount(debt_capex, finance) <= 0
       \/ debt_m > NumMonths(finance, debt_horizon)
    /\ debt' = IF LoanAmount(debt_capex, finance) <= 0
               THEN [built |-> TRUE, loan_amount |-> 0, rows |-> <<>>,
                     total_interest_paid |-> 0, total_principal_paid |-> 0]
               ELSE [built |-> TRUE,
                     loan_amount |-> RoundCent(LoanAmount(debt_capex, finance)),
                     rows |-> debt_rows,
                     total_interest_paid |->
                         RoundCent(SumSeq([k \in 1..Len(debt_exact) |-> debt_exact[k].interest])),
                     total_principal_paid |->
                         RoundCent(SumSeq([k \in 1..Len(debt_exact) |-> debt_exact[k].principal]))]
    /\ UNCHANGED <<finance, debt_capex, debt_horizon, debt_m, balance, debt_rows,
                   debt_exact, snaps, dscr, notDebt>>

\* ---- compute_dscr
\* revenue and opex_total of a monthly snapshot
SnapChoices ==
    { [revenue |-> 0, opex_total |-> 1000],
      [revenue |-> 4000, opex_total |-> 1000],
      [revenue |-> 20000, opex_total |-> 1000] }

\* debt_rows_by_month.get(m): the rows of month m (one or none)
RowsOfMonth(rows, month) == SelectSeq(rows, LAMBDA r : r.month = month)

\* Does the month have debt service: a debt row with emi > 0?
HasDebtService(rows, month) ==
    /\ RowsOfMonth(rows, month) # <<>>
    /\ RowsOfMonth(rows, month)[1].emi > 0

\* round(dscr_val, 4) with dscr_val = noi / emi, or inf
DscrOfMonth(rows, snap) ==
    IF HasDebtService(rows, snap.month)
    THEN RoundHalfEven((snap.revenue - snap.opex_total) * 10000,
                       RowsOfMonth(rows, snap.month)[1].emi)
    ELSE Infinity

\* Mutant: the covenant test without its finiteness guard.
BreachesAlways(rows, snap, threshold) ==
    \/ ~HasDebtService(rows, snap.month)
    \/ (snap.revenue - snap.opex_total) * 10000
          < threshold * RowsOfMonth(rows, snap.month)[1].emi

\* dscr_val < dscr_covenant_threshold and dscr_val != inf
Breaches(rows, snap, threshold) ==
    /\ HasDebtService(rows, snap.month)
    /\ (snap.revenue - snap.opex_total) * 10000
          < threshold * RowsOfMonth(rows, snap.month)[1].emi

\* monthly_dscr.index(min_val) + 1
IndexOf(s, x) == CHOOSE k \in 1..Len(s) : s[k] = x /\ \A j \in 1..(k - 1) : s[j] # x

DscrResult(schedule, fin, ms) ==
    IF schedule.loan_amount <= 0 \/ schedule.rows = <<>>
    THEN [computed |-> TRUE, monthly_dscr |-> <<>>, avg_dscr |-> Infinity,
          min_dscr |-> Infinity, min_dscr_month |-> 0, breach_months |-> <<>>]
    ELSE
    LET monthly_dscr == [k \in 1..Len(ms) |-> DscrOfMonth(schedule.rows, ms[k])]
        breaching == SelectSeq(ms, LAMBDA sn :
                        Breaches(schedule.rows, sn, fin.dscr_covenant_threshold))
        finite_dscr == SelectSeq(monthly_dscr, LAMBDA d : d # Infinity)
    IN  [computed |-> TRUE,
         monthly_dscr |-> monthly_dscr,
         avg_dscr |-> IF finite_dscr # <<>>
                      THEN RoundHalfEven(SumSeq(finite_dscr), Len(finite_dscr))
                      ELSE Infinity,
         min_dscr |-> IF finite_dscr # <<>> THEN MinSeq(finite_dscr) ELSE Infinity,
         min_dscr_month |-> IF finite_dscr # <<>>
                            THEN IndexOf(monthly_dscr, MinSeq(finite_dscr))
                            ELSE 0,
         breach_months |-> [k \in 1..Len(breaching) |-> breaching[k].month]]

\* compute_dscr(months, debt, finance_cfg) on the snapshots of the horizon.
ComputeDscr ==
    /\ debt.built
    /\ ~dscr.computed
    /\ \E ms \in [1..debt_horizon -> SnapChoices] :
        /\ snaps' = [k \in 1..debt_horizon |-> [month |-> k] @@ ms[k]]
        /\ dscr' = DscrResult(debt, finance, snaps')
    /\ UNCHANGED <<finance, debt_capex, debt_horizon, debt_m, balance, debt_rows,
                   debt_exact, debt, notDebt>>

\* =========================================================================
\* Trial copies of the caller's scenario and charger
\* (finance/sensitivity.py, engine/optimizer.py, engine/field_data.py)
\* =========================================================================
\* Objects live in a heap of addresses: refs[a] are the fields of object a
\* that hold another object, vals[a] its plain fields. float fields are in
\* hundredths, int fields in units.
MaxAddr == 34
MaxSweeps == 2
MaxEvals == 2
Addr == 1..MaxAddr
NoObject == 0
\* the Scenario passed in by the caller
CallerScenario == 1

\* The caller's objects: a Scenario with its simulation, pack, revenue and
\* charger_variants list, and the charger passed in: the element of that
\* list (address 6) or an object of its own (address 7).
CallerHeap(engine, monte_carlo_runs, fleet, in_list) ==
    [refs |-> [a \in Addr |->
                 IF a = 1 THEN [simulation |-> 2, pack |-> 3, revenue |-> 4,
                                charger_variants |-> 5]
                 ELSE IF a = 5 THEN [item0 |-> 6]
                 ELSE <<>>],
     vals |-> [a \in Addr |->
                 IF a = 2 THEN [engine |-> engine,
                                monte_carlo_runs |-> monte_carlo_runs]
                 ELSE IF a = 3 THEN [unit_cost |-> 100000]
                 ELSE IF a = 4 THEN [initial_fleet_size |-> fleet]
                 ELSE IF a = 6 \/ (a = 7 /\ ~in_list) THEN [mtbf_hours |-> 8000000]
                 ELSE <<>>],
     alloc |-> IF in_list THEN 1..6 ELSE 1..7]

Children(h, a) == { h.refs[a][f] : f \in DOMAIN h.refs[a] }

RECURSIVE ReachFrom(_, _)
ReachFrom(h, S) ==
    LET T == S \cup UNION { Children(h, a) : a \in S }
    IN  IF T = S THEN S ELSE ReachFrom(h, T)

\* the objects reachable from root
Reach(h, root) == ReachFrom(h, {root})

Rank(a, S) == Cardinality({ x \in S : x <= a })
Nth(S, k) == CHOOSE x \in S : Rank(x, S) = k

\* Mutant: copy.copy, a new top object whose fields hold the same objects.
ShallowCopy(h, root) ==
    LET n == Nth(Addr \ h.alloc, 1)
    IN  [heap |-> [refs |-> [h.refs EXCEPT ![n] = h.refs[root]],
                   vals |-> [h.vals EXCEPT ![n] = h.vals[root]],
                   alloc |-> h.alloc \cup {n}],
         root |-> n]

\* copy.deepcopy(root): a new object for every object reachable from root,
\* with the same plain fields and with references to the new objects.
DeepCopy(h, root) ==
    LET old == Reach(h, root)
        fresh(a) == Nth(Addr \ h.alloc, Rank(a, old))
        copies == { fresh(a) : a \in old }
        origin(b) == CHOOSE a \in old : fresh(a) = b
    IN  [heap |-> [refs |-> [b \in Addr |->
                              IF b \in copies /\ DOMAIN h.refs[origin(b)] # {}
                              THEN [f \in DOMAIN h.refs[origin(b)] |->
                                        fresh(h.refs[origin(b)][f])]
                              ELSE IF b \in copies THEN <<>>
                              ELSE h.refs[b]],
                   vals |-> [b \in Addr |->
                              IF b \in copies THEN h.vals[origin(b)] ELSE h.vals[b]],
                   alloc |-> h.alloc \cup copies],
         root |-> fresh(root)]

\* Objects no name refers to any more are reclaimed.
Collect(h, roots) ==
    LET reachable == ReachFrom(h, roots \ {NoObject})
    IN  [refs |-> [a \in Addr |-> IF a \in reachable THEN h.refs[a] ELSE <<>>],
         vals |-> [a \in Addr |-> IF a \in reachable THEN h.vals[a] ELSE <<>>],
         alloc |-> reachable]

\* fields annotated int
IntFields == {"initial_fleet_size", "monte_carlo_runs"}

\* path.startswith("charger.")
IsChargerPath(path) == path[1] = "charger"

\* the object reached by following parts from obj, if every part exists
RECURSIVE Resolve(_, _, _)
Resolve(h, obj, parts) ==
    IF parts = <<>> THEN obj
    ELSE IF parts[1] \notin DOMAIN h.refs[obj] THEN NoObject
    ELSE Resolve(h, h.refs[obj][parts[1]], Tail(parts))

Parent(h, obj, path) == Resolve(h, obj, SubSeq(path, 1, Len(path) - 1))
Attr(path) == path[Len(path)]

\* float(value of an attribute), in hundredths
FloatOf(h, obj, attr) ==
    IF attr \in IntFields THEN 100 * h.vals[obj][attr] ELSE h.vals[obj][attr]

\* _get_nested_attr does not raise AttributeError
HasNestedAttr(h, obj, path) ==
    /\ Parent(h, obj, path) # NoObject
    /\ Attr(path) \in DOMAIN h.vals[Parent(h, obj, path)]

GetNestedAttr(h, obj, path) == FloatOf(h, Parent(h, obj, path), Attr(path))

\* setattr(obj, attr, value)
SetAttr(h, obj, attr, value) == [h EXCEPT !.vals[obj][attr] = value]

\* sensitivity._set_nested_attr: a value for an int field is rounded first
SetNestedAttr(h, obj, path, value) ==
    SetAttr(h, Parent(h, obj, path), Attr(path),
            IF Attr(path) \in IntFields THEN RoundHalfEven(value, 100) ELSE value)

\* field_data._set_nested
SetNested(h, obj, path, value) == SetAttr(h, Parent(h, obj, path), Attr(path), value)

\* (name, path, low_pct, high_pct), percentages in percent
SweepChoices ==
    { [path |-> <<"pack", "unit_cost">>, low_pct |-> -15, high_pct |-> 15],
      [path |-> <<"charger", "mtbf_hours">>, low_pct |-> -20, high_pct |-> 20],
      [path |-> <<"revenue", "initial_fleet_size">>, low_pct |-> -25, high_pct |-> 25],
      [path |-> <<"revenue", "no_such_field">>, low_pct |-> -10, high_pct |-> 10] }

NoSweep == [path |-> <<>>, low_pct |-> 0, high_pct |-> 0]

FleetChoices == {50, 100}

\* AutoTuneResult.parameters: (param_path, tuned_value)
TunedChoices ==
    { [param_path |-> <<"pack", "unit_cost">>, tuned_value |-> 90000],
      [param_path |-> <<"charger", "mtbf_hours">>, tuned_value |-> 6000000] }

TunedLists == UNION { [1..n -> TunedChoices] : n \in 1..2 }

NoLocals ==
    [base_scenario |-> NoObject, low_scenario |-> NoObject, low_charger |-> NoObject,
     high_scenario |-> NoObject, high_charger |-> NoObject, trial |-> NoObject,
     tuned_scenario |-> NoObject, tuned_charger |-> NoObject]

\* what the names in scope refer to
Roots(l) == {CallerScenario, caller_charger} \cup { l[n] : n \in DOMAIN l }

CopyInit ==
    /\ \E engine \in {"static", "stochastic"}, in_list \in BOOLEAN :
          /\ heap = CallerHeap(engine, IF engine = "static" THEN 1 ELSE 3, 50, in_list)
          /\ caller_charger = IF in_list THEN 6 ELSE 7
    /\ caller_before = heap
    /\ copy_pc = "idle"
    /\ copy_op = "none"
    /\ locals = NoLocals
    /\ sweeps_left = 0
    /\ sweep = NoSweep
    /\ evals_left = 0
    /\ returned = {}

CopyIdle ==
    /\ heap = CallerHeap("static", 1, 50, TRUE)
    /\ caller_charger = 6
    /\ caller_before = heap
    /\ copy_pc = "idle"
    /\ copy_op = "none"
    /\ locals = NoLocals
    /\ sweeps_left = 0
    /\ sweep = NoSweep
    /\ evals_left = 0
    /\ returned = {}

\* ---- run_sensitivity
\* The call up to the loop: the base scenario is a copy forced to the
\* static engine.
CallRunSensitivity ==
    /\ copy_pc = "idle"
    /\ \E n \in 1..MaxSweeps : sweeps_left' = n
    /\ LET c == DeepCopy(heap, CallerScenario)
           sim == c.heap.refs[c.root].simulation
       IN  /\ heap' = SetAttr(SetAttr(c.heap, sim, "engine", "static"),
                              sim, "monte_carlo_runs", 1)
           /\ locals' = [locals EXCEPT !.base_scenario = c.root]
    /\ copy_pc' = "low"
    /\ copy_op' = "run_sensitivity"
    /\ UNCHANGED <<caller_charger, caller_before, sweep, evals_left, returned, notCopy>>

\* base_val of a sweep
BaseVal(h, l, path) ==
    IF IsChargerPath(path) THEN FloatOf(h, caller_charger, Attr(path))
    ELSE GetNestedAttr(h, l.base_scenario, path)

\* One trial of a sweep: the scenario and the charger are copied, the names
\* rebound, and the swept value is set on the copy.
SweepTrial(h, l, path, pct, scenario_name, charger_name) ==
    LET val == (BaseVal(h, l, path) * (100 + pct)) \div 100
        c1 == DeepCopy(h, l.base_scenario)
        l1 == [l EXCEPT ![scenario_name] = c1.root]
        h1 == Collect(c1.heap, Roots(l1))
        c2 == DeepCopy(h1, caller_charger)
        l2 == [l1 EXCEPT ![charger_name] = c2.root]
        h2 == Collect(c2.heap, Roots(l2))
    IN  [heap |-> IF IsChargerPath(path)
                  THEN SetAttr(h2, l2[charger_name], Attr(path), val)
                  ELSE SetNestedAttr(h2, l2[scenario_name], path, val),
         locals |-> l2]

\* a sweep whose path is not an attribute of the scenario is skipped
SweepSkip ==
    /\ copy_pc = "low"
    /\ sweeps_left > 0
    /\ \E sw \in SweepChoices :
          /\ ~IsChargerPath(sw.path)
          /\ ~HasNestedAttr(heap, locals.base_scenario, sw.path)
    /\ sweeps_left' = sweeps_left - 1
    /\ UNCHANGED <<heap, caller_charger, caller_before, copy_pc, copy_op, locals, sweep,
                   evals_left, returned, notCopy>>

SweepLow ==
    /\ copy_pc = "low"
    /\ sweeps_left > 0
    /\ \E sw \in SweepChoices :
          /\ \/ IsChargerPath(sw.path)
             \/ HasNestedAttr(heap, locals.base_scenario, sw.path)
          /\ sweep' = sw
          /\ LET t == SweepTrial(heap, locals, sw.path, sw.low_pct,
                                 "low_scenario", "low_charger")
             IN  heap' = t.heap /\ locals' = t.locals
    /\ copy_pc' = "high"
    /\ UNCHANGED <<caller_charger, caller_before, copy_op, sweeps_left, evals_left,
                   returned, notCopy>>

SweepHigh ==
    /\ copy_pc = "high"
    /\ LET t == SweepTrial(heap, locals, sweep.path, sweep.high_pct,
                           "high_scenario", "high_charger")
       IN  heap' = t.heap /\ locals' = t.locals
    /\ sweeps_left' = sweeps_left - 1
    /\ copy_pc' = "low"
    /\ UNCHANGED <<caller_charger, caller_before, copy_op, sweep, evals_left, returned,
                   notCopy>>

SensitivityReturn ==
    /\ copy_pc = "low"
    /\ sweeps_left = 0
    /\ locals' = NoLocals
    /\ sweep' = NoSweep
    /\ heap' = Collect(heap, Roots(NoLocals))
    /\ returned' = returned \cup {copy_op}
    /\ copy_op' = "none"
    /\ copy_pc' = "idle"
    /\ UNCHANGED <<caller_charger, caller_before, sweeps_left, evals_left, notCopy>>

\* ---- find_minimum_fleet_size, find_optimal_scale: both evaluate fleet
\* sizes through _evaluate_fleet_size and touch the scenario nowhere else.
CallOptimizer ==
    /\ copy_pc = "idle"
    /\ \E op \in {"find_minimum_fleet_size", "find_optimal_scale"} : copy_op' = op
    /\ \E n \in 0..MaxEvals : evals_left' = n
    /\ copy_pc' = "evaluate"
    /\ UNCHANGED <<heap, caller_charger, caller_before, locals, sweeps_left, sweep, returned,
                   notCopy>>

\* _evaluate_fleet_size up to run_engine(trial, charger)
EvaluateTrial ==
    /\ copy_pc = "evaluate"
    /\ evals_left > 0
    /\ \E fleet_size \in FleetChoices :
          LET c == DeepCopy(heap, CallerScenario)
          IN  /\ heap' = SetAttr(c.heap, c.heap.refs[c.root].revenue,
                                 "initial_fleet_size", fleet_size)
              /\ locals' = [locals EXCEPT !.trial = c.root]
    /\ copy_pc' = "evaluated"
    /\ UNCHANGED <<caller_charger, caller_before, copy_op, sweeps_left, sweep, evals_left,
                   returned, notCopy>>

EvaluateTrialReturn ==
    /\ copy_pc = "evaluated"
    /\ locals' = [locals EXCEPT !.trial = NoObject]
    /\ heap' = Collect(heap, Roots(locals'))
    /\ evals_left' = evals_left - 1
    /\ copy_pc' = "evaluate"
    /\ UNCHANGED <<caller_charger, caller_before, copy_op, sweeps_left, sweep, returned, notCopy>>

OptimizerReturn ==
    /\ copy_pc = "evaluate"
    /\ evals_left = 0
    /\ returned' = returned \cup {copy_op}
    /\ copy_op' = "none"
    /\ copy_pc' = "idle"
    /\ UNCHANGED <<heap, caller_charger, caller_before, locals, sweeps_left, sweep,
                   evals_left, notCopy>>

\* ---- apply_tuned_parameters
RECURSIVE ApplyParams(_, _, _, _)
ApplyParams(h, tuned_scenario, tuned_charger, params) ==
    IF params = <<>> THEN h
    ELSE ApplyParams(
            IF IsChargerPath(params[1].param_path)
            THEN SetAttr(h, tuned_charger, Attr(params[1].param_path),
                         params[1].tuned_value)
            ELSE SetNested(h, tuned_scenario, params[1].param_path,
                           params[1].tuned_value),
            tuned_scenario, tuned_charger, Tail(params))

\* The whole call; the caller keeps the two copies it returns.
ApplyTunedParameters ==
    /\ copy_pc = "idle"
    /\ \E params \in TunedLists :
          LET c1 == DeepCopy(heap, CallerScenario)
              c2 == DeepCopy(c1.heap, caller_charger)
          IN  /\ heap' = ApplyParams(c2.heap, c1.root, c2.root, params)
              /\ locals' = [locals EXCEPT !.tuned_scenario = c1.root,
                                          !.tuned_charger = c2.root]
    /\ returned' = returned \cup {"apply_tuned_parameters"}
    /\ copy_pc' = "tuned"
    /\ UNCHANGED <<caller_charger, caller_before, copy_op, sweeps_left, sweep, evals_left,
                   notCopy>>

\* the caller lets go of the tuned copies
DropTuned ==
    /\ copy_pc = "tuned"
    /\ locals' = NoLocals
    /\ heap' = Collect(heap, Roots(NoLocals))
    /\ copy_pc' = "idle"
    /\ UNCHANGED <<caller_charger, caller_before, copy_op, sweeps_left, sweep, evals_left,
                   returned, notCopy>>

\* =========================================================================
\* Specifications
\* =========================================================================
TrackerNext == AddCohort \/ Step

InitTracker == TrackerInit /\ RelIdle /\ EngIdle /\ AggIdle /\ OptIdle /\ DebtIdle /\ CopyIdle /\ TcoIdle /\ ScaleIdle
        /\ DemandIdle
        /\ RecIdle
        /\ IrrIdle

SpecTracker == InitTracker /\ [][TrackerNext]_vars

LoadNext == LoadStep

InitLoad == LoadInit /\ RelIdle /\ EngIdle /\ AggIdle /\ OptIdle /\ DebtIdle /\ CopyIdle /\ TcoIdle /\ ScaleIdle
        /\ DemandIdle
        /\ RecIdle
        /\ IrrIdle

SpecLoad == InitLoad /\ [][LoadNext]_vars

RelNext == RelStepAction

InitRel == RelInit /\ TrackerIdle /\ EngIdle /\ AggIdle /\ OptIdle /\ DebtIdle /\ CopyIdle /\ TcoIdle /\ ScaleIdle
        /\ DemandIdle
        /\ RecIdle
        /\ IrrIdle

SpecRel == InitRel /\ [][RelNext]_vars

InitEngine == EngineInit /\ AggIdle /\ OptIdle /\ DebtIdle /\ CopyIdle /\ TcoIdle /\ ScaleIdle
        /\ DemandIdle
        /\ RecIdle
        /\ IrrIdle

SpecEngine == InitEngine /\ [][EngNext]_vars

AggNext == Reorder \/ AggregateCollected \/ EvaluateFleetSize

InitAgg == AggInit /\ TrackerIdle /\ RelIdle /\ EngIdle /\ OptIdle /\ DebtIdle /\ CopyIdle /\ TcoIdle /\ ScaleIdle
        /\ DemandIdle
        /\ RecIdle
        /\ IrrIdle

SpecAgg == InitAgg /\ [][AggNext]_vars

OptNext == SearchStep \/ SearchReturn

InitOpt == OptInit /\ TrackerIdle /\ RelIdle /\ EngIdle /\ AggIdle /\ DebtIdle /\ CopyIdle /\ TcoIdle /\ ScaleIdle
        /\ DemandIdle
        /\ RecIdle
        /\ IrrIdle

SpecOpt == InitOpt /\ [][OptNext]_vars

\* The call runs on: an iteration or the return that can be taken is taken.
SpecOptFair == InitOpt /\ [][OptNext]_vars /\ WF_vars(OptNext)

DebtNext == DebtMonth \/ DebtReturn \/ ComputeDscr

InitDebt == DebtInit /\ TrackerIdle /\ RelIdle /\ EngIdle /\ AggIdle /\ OptIdle /\ CopyIdle /\ TcoIdle /\ ScaleIdle
        /\ DemandIdle
        /\ RecIdle
        /\ IrrIdle

SpecDebt == InitDebt /\ [][DebtNext]_vars

CopyNext ==
    \/ CallRunSensitivity \/ SweepSkip \/ SweepLow \/ SweepHigh \/ SensitivityReturn
    \/ CallOptimizer \/ EvaluateTrial \/ EvaluateTrialReturn \/ OptimizerReturn
    \/ ApplyTunedParameters \/ DropTuned

InitCopy ==
    CopyInit /\ TrackerIdle /\ RelIdle /\ EngIdle /\ AggIdle /\ OptIdle /\ DebtIdle
        /\ TcoIdle /\ ScaleIdle
        /\ DemandIdle
        /\ RecIdle
        /\ IrrIdle

SpecCopy == InitCopy /\ [][CopyNext]_vars

TcoNext == ComputeChargerTco

InitTco ==
    TcoInit /\ TrackerIdle /\ RelIdle /\ EngIdle /\ AggIdle /\ OptIdle /\ DebtIdle
        /\ CopyIdle /\ ScaleIdle
        /\ DemandIdle
        /\ RecIdle
        /\ IrrIdle

SpecTco == InitTco /\ [][TcoNext]_vars

ScaleNext == ScaleEvaluate \/ ScaleReturn \/ ScaleRaise

InitScale ==
    ScaleInit /\ TrackerIdle /\ RelIdle /\ EngIdle /\ AggIdle /\ OptIdle /\ DebtIdle
        /\ CopyIdle /\ TcoIdle
        /\ DemandIdle
        /\ RecIdle
        /\ IrrIdle

SpecScale == InitScale /\ [][ScaleNext]_vars

DemandNext == StaticDemandMonth \/ GenerateMonthlyDemand

InitDemand ==
    DemandInit /\ TrackerIdle /\ RelIdle /\ EngIdle /\ AggIdle /\ OptIdle /\ DebtIdle
        /\ CopyIdle /\ TcoIdle /\ ScaleIdle
        /\ RecIdle
        /\ IrrIdle

SpecDemand == InitDemand /\ [][DemandNext]_vars

RecNext == RecSkip \/ RecEvaluate \/ RecReturn

InitRec ==
    RecInit /\ TrackerIdle /\ RelIdle /\ EngIdle /\ AggIdle /\ OptIdle /\ DebtIdle
        /\ CopyIdle /\ TcoIdle /\ ScaleIdle /\ DemandIdle
        /\ IrrIdle

SpecRec == InitRec /\ [][RecNext]_vars

IrrNext == IrrReturnNone \/ IrrIterate \/ IrrExhausted

InitIrr ==
    IrrInit /\ TrackerIdle /\ RelIdle /\ EngIdle /\ AggIdle /\ OptIdle /\ DebtIdle
        /\ CopyIdle /\ TcoIdle /\ ScaleIdle /\ DemandIdle /\ RecIdle

SpecIrr == InitIrr /\ [][IrrNext]_vars


\* =========================================================================
\* Properties
\* =========================================================================

\* Packs of the cohorts of cs that are not retired, summed over the index set.
RECURSIVE SumOver(_, _)
SumOver(f, S) ==
    IF S = {} THEN 0
    ELSE LET x == CHOOSE y \in S : TRUE IN f[x] + SumOver(f, S \ {x})

PacksNotRetired(cs) ==
    SumOver([i \in 1..Len(cs) |-> cs[i].pack_count],
            {i \in 1..Len(cs) : ~cs[i].is_retired})

\* C1: over any sequence of add_cohort and step calls the cohort list only
\* grows; every cohort's cumulative_cycles never decreases and its
\* current_soh never increases; a retired cohort is frozen (no field of it
\* changes again, so it stays retired), is not counted in the step's
\* active_pack_count, and replacement packs always get a new cohort with a
\* new id.
C1_CohortMonotoneRetiredFrozen ==
    [][ /\ Len(cohorts') >= Len(cohorts)
        /\ \A i \in 1..Len(cohorts) :
            /\ cohorts'[i].cumulative_cycles >= cohorts[i].cumulative_cycles
            /\ cohorts'[i].current_soh <= cohorts[i].current_soh
            /\ cohorts[i].is_retired => cohorts'[i] = cohorts[i]
        /\ \A j \in (Len(cohorts) + 1)..Len(cohorts') :
            /\ \A i \in 1..Len(cohorts) : cohorts'[j].cohort_id # cohorts[i].cohort_id
            /\ ~cohorts'[j].is_retired
        /\ (deg_month' # deg_month /\ ActivePackCount(cohorts) > 0)
            => deg_result'.active_pack_count = PacksNotRetired(cohorts')
      ]_vars

\* C1 witness: a cohort retired in an earlier month while another cohort is
\* still cycling after it.
C1_Witness ==
    \E i, j \in 1..Len(cohorts) :
        /\ cohorts[i].is_retired
        /\ cohorts[i].retired_month < deg_month
        /\ ~cohorts[j].is_retired
        /\ cohorts[j].cumulative_cycles > 0

\* The cohorts a step retires: active before it, retired after it.
RetiredByStep(before, after) ==
    {i \in 1..Len(before) : ~before[i].is_retired /\ after[i].is_retired}

\* C8: with auto-replace on, a step that retires cohorts appends exactly one
\* cohort per newly retired cohort, in the same order, with the same
\* pack_count, SOH 1.0 and born_month = the step's month, so packs_replaced =
\* packs_retired and the active pack count is unchanged; with auto-replace
\* off nothing is appended, packs_replaced = 0 and the active pack count
\* falls by exactly packs_retired.
C8_ReplacementPreservesActivePacks ==
    [][ deg_month' # deg_month =>
        LET gone == RetiredByStep(cohorts, cohorts')
            order == SelectSeq([i \in 1..Len(cohorts) |-> i], LAMBDA i : i \in gone)
            n == Len(cohorts)
        IN  /\ deg_result'.packs_retired =
                  SumOver([i \in 1..n |-> cohorts[i].pack_count], gone)
            /\ IF auto_replace
               THEN /\ Len(cohorts') = n + Cardinality(gone)
                    /\ \A k \in 1..Len(order) :
                        /\ cohorts'[n + k].pack_count = cohorts[order[k]].pack_count
                        /\ cohorts'[n + k].current_soh = SohScale
                        /\ cohorts'[n + k].born_month = deg_month'
                        /\ cohorts'[n + k].cumulative_cycles = 0
                        /\ ~cohorts'[n + k].is_retired
                    /\ deg_result'.packs_replaced = deg_result'.packs_retired
                    /\ PacksNotRetired(cohorts') = PacksNotRetired(cohorts)
               ELSE /\ Len(cohorts') = n
                    /\ deg_result'.packs_replaced = 0
                    /\ PacksNotRetired(cohorts') =
                          PacksNotRetired(cohorts) - deg_result'.packs_retired
      ]_vars

\* C8 witness: a step with auto-replace on has just retired two cohorts at
\* once and replaced both.
C8_Witness ==
    /\ auto_replace
    /\ deg_result.packs_retired > 0
    /\ deg_result.packs_replaced = deg_result.packs_retired
    /\ Cardinality({i \in 1..Len(cohorts) :
            cohorts[i].is_retired /\ cohorts[i].retired_month = deg_month}) >= 2

\* C9: in every step of the reliability tracker a dock that is replaced (its
\* cumulative failures plus this month's sample reach the threshold) gets age
\* 0 and every other dock ages by exactly the monthly operating hours; an age
\* decreases only by such a replacement.
C9_DockAge ==
    [][ rel_month' # rel_month =>
        \A d \in 1..total_docks :
            LET replaced == cumulative_failures[d] + failures_per_dock'[d]
                                >= charger.replacement_threshold
            IN  /\ replaced => age_hours'[d] = 0
                /\ ~replaced => age_hours'[d] = age_hours[d] + hours_per_month
                /\ age_hours'[d] < age_hours[d] => replaced
      ]_vars

\* C9 witness: one dock has just been replaced while another kept ageing
\* into its second month or later.
C9_Witness ==
    \E d, e \in 1..total_docks :
        /\ rel_month >= 2
        /\ failures_per_dock[d] > 0
        /\ age_hours[d] = 0
        /\ age_hours[e] = rel_month * hours_per_month

\* C2: in every month of a stochastic run the snapshot's
\* replacement_capex_this_month equals packs_retired_this_month times
\* (unit_cost - second-life salvage value), hence 0 in a month without
\* retirements.
C2_ReplacementCapexNetOfSalvage ==
    mode \in {"single", "collect", "representative"} =>
        \A k \in 1..Len(months) :
            /\ months[k].replacement_capex_this_month =
                  months[k].packs_retired_this_month
                      * (pack.unit_cost - pack.second_life_salvage_value)
            /\ months[k].packs_retired_this_month = 0
                  => months[k].replacement_capex_this_month = 0

\* C2 witness: a stochastic run with a month in which packs retired, with a
\* salvage value that matters, and a month in which none did.
C2_Witness ==
    /\ mode \in {"single", "collect", "representative"}
    /\ pack.second_life_salvage_value > 0
    /\ \E k, j \in 1..Len(months) :
        /\ months[k].packs_retired_this_month > 0
        /\ months[k].replacement_capex_this_month > 0
        /\ months[j].packs_retired_this_month = 0

\* Sum of the net_cash_flow fields of the first k snapshots.
RECURSIVE SnapshotNetSum(_, _)
SnapshotNetSum(ms, k) ==
    IF k = 0 THEN 0 ELSE ms[k].net_cash_flow + SnapshotNetSum(ms, k - 1)

\* Sum of the unrounded net cash flows of the first k months.
RECURSIVE LedgerNetSum(_, _)
LedgerNetSum(ls, k) ==
    IF k = 0 THEN 0 ELSE ls[k].net_cf + LedgerNetSum(ls, k - 1)

\* C3 as stated: in both engines, in every month the snapshot's
\* net_cash_flow equals its revenue - opex_total - capex_this_month, and its
\* cumulative_cash_flow equals the sum of the snapshots' net_cash_flow over
\* months 1..m.
C3_SnapshotIdentitiesExact ==
    \A k \in 1..Len(months) :
        /\ months[k].net_cash_flow =
              months[k].revenue - months[k].opex_total - months[k].capex_this_month
        /\ months[k].cumulative_cash_flow = SnapshotNetSum(months, k)

\* C3, amended: the identities hold exactly for the loop's unrounded
\* amounts; every snapshot field is the 2-decimal rounding of its unrounded
\* amount, so the snapshot's net_cash_flow is within 0.02 of revenue -
\* opex_total - capex_this_month and its cumulative_cash_flow within
\* 0.005 * (m + 1) of the sum of the snapshots' net_cash_flow over 1..m.
C3_LedgerIdentitiesSnapshotsRounded ==
    /\ Len(months) = Len(ledger)
    /\ \A k \in 1..Len(ledger) :
        /\ ledger[k].net_cf = ledger[k].revenue - ledger[k].opex - ledger[k].capex
        /\ ledger[k].cumulative_cf = LedgerNetSum(ledger, k)
        /\ months[k].revenue = Round2(ledger[k].revenue)
        /\ months[k].opex_total = Round2(ledger[k].opex)
        /\ months[k].capex_this_month = Round2(ledger[k].capex)
        /\ months[k].net_cash_flow = Round2(ledger[k].net_cf)
        /\ months[k].cumulative_cash_flow = Round2(ledger[k].cumulative_cf)
        /\ Abs(months[k].net_cash_flow
                 - (months[k].revenue - months[k].opex_total
                        - months[k].capex_this_month)) <= 20
        /\ Abs(months[k].cumulative_cash_flow - SnapshotNetSum(months, k))
              <= 5 * (k + 1)
    /\ Len(ledger) > 0 => cumulative_cf = ledger[Len(ledger)].cumulative_cf

\* C3 witness: a month whose snapshot net_cash_flow
\* is not its revenue - opex_total - capex_this_month, in a run of at least
\* two months whose unrounded amounts add up.
C3_Witness ==
    /\ Len(months) >= 2
    /\ \E k \in 1..Len(months) :
        months[k].net_cash_flow #
            months[k].revenue - months[k].opex_total - months[k].capex_this_month
    /\ ledger[2].cumulative_cf = ledger[1].net_cf + ledger[2].net_cf

\* The months m > 1 of a ledger whose unrounded cumulative cash flow is >= 0.
NonNegativeMonths(ls) == {k \in 2..Len(ls) : ls[k].cumulative_cf >= 0}

\* The smallest of them, None when there is none.
FirstNonNegativeMonth(ls) ==
    IF NonNegativeMonths(ls) = {} THEN NoMonth
    ELSE CHOOSE k \in NonNegativeMonths(ls) : \A j \in NonNegativeMonths(ls) : k <= j

\* C4: in both engines the summary's break_even_month is the smallest month
\* m > 1 whose cumulative cash flow is >= 0 and None exactly when there is no
\* such month in the horizon; the loop's break_even_month is that month of
\* the months so far, and a later month never changes it once it is set.
C4_BreakEvenFirstNonNegativeMonth ==
    /\ [](/\ \A r \in 1..Len(runs) :
              /\ Len(runs[r].ledger) = scenario.simulation.horizon_months
              /\ runs[r].result.summary.break_even_month =
                    FirstNonNegativeMonth(runs[r].ledger)
              /\ runs[r].result.summary.break_even_month = NoMonth
                    <=> \A k \in 2..scenario.simulation.horizon_months :
                            runs[r].ledger[k].cumulative_cf < 0
          /\ break_even_month = FirstNonNegativeMonth(ledger))
    /\ [][(break_even_month # NoMonth /\ m' = m + 1)
              => break_even_month' = break_even_month]_vars

\* C4 witness: a finished run that started below zero, broke even before
\* its last month and was at or above zero again in its last month.
C4_Witness ==
    \E r \in 1..Len(runs) :
        /\ runs[r].result.summary.break_even_month # NoMonth
        /\ runs[r].result.summary.break_even_month < Len(runs[r].ledger)
        /\ runs[r].ledger[Len(runs[r].ledger)].cumulative_cf >= 0
        /\ runs[r].ledger[1].cumulative_cf < 0

\* C5: two stochastic runs of the same scenario, charger and seed have the
\* same result, month by month and in the summary: within one call the
\* re-run of a seed repeats the collected run of that seed, and a second
\* call of run_engine returns what the first call returned, whatever the
\* earlier runs left behind.
C5_SameSeedSameResult ==
    scenario.simulation.engine = "stochastic" =>
        /\ \A r, q \in 1..Len(runs) :
              runs[r].seed = runs[q].seed => runs[r].result = runs[q].result
        /\ \A c, d \in 1..Len(results) : results[c] = results[d]

\* C5 witness: run_engine has returned twice from Monte-Carlo runs whose
\* demand and charger failures were sampled, and the runs of one call did
\* not all come out the same.
C5_Witness ==
    /\ scenario.simulation.engine = "stochastic"
    /\ DemandDraws(scenario)
    /\ Len(results) = 2
    /\ results[2].summary.total_charger_failures > 0
    /\ \E r, q \in 1..Len(runs) :
        /\ runs[r].seed = runs[q].seed /\ r # q
    /\ \E r, q \in 1..Len(runs) :
        /\ runs[r].result.months # runs[q].result.months

\* The result without its Monte-Carlo summary.
WithoutMonteCarlo(res) == [res EXCEPT !.monte_carlo = NoMonteCarlo]

DistanceToP50(rs, i) ==
    Abs(rs[i].total_net_cash_flow - Percentile(Ncfs(rs), 50))

\* The runs at the smallest distance from the P50.
ClosestRuns(rs) ==
    {i \in 1..Len(rs) : \A j \in 1..Len(rs) : DistanceToP50(rs, i) <= DistanceToP50(rs, j)}

\* Position of run i in the collection order.
PositionOf(order, i) == CHOOSE k \in 1..Len(order) : order[k] = i

PassedSizes(log) == {log[k].fleet_size : k \in {j \in 1..Len(log) : log[j].passed}}

\* C10: find_minimum_fleet_size returns achieved = true exactly when an
\* evaluated fleet size passed, and then recommended_fleet_size is the
\* smallest evaluated size that passed; otherwise it returns max_fleet with
\* achieved = false; the search log has one entry per evaluation, in
\* evaluation order.
C10_RecommendedSmallestPassing ==
    sizing.returned =>
        /\ sizing.achieved <=> PassedSizes(sizing.search_log) # {}
        /\ sizing.achieved =>
              /\ sizing.recommended_fleet_size \in PassedSizes(sizing.search_log)
              /\ \A f \in PassedSizes(sizing.search_log) :
                    sizing.recommended_fleet_size <= f
        /\ ~sizing.achieved => sizing.recommended_fleet_size = max_fleet
        /\ Len(sizing.search_log) = Len(evaluations)
        /\ sizing.search_iterations = Len(evaluations)
        /\ \A k \in 1..Len(evaluations) :
              /\ sizing.search_log[k].fleet_size = evaluations[k]
              /\ sizing.search_log[k].passed = passes[evaluations[k]]

\* C10 witness: a search that evaluated three sizes, two of which passed,
\* and returned the smaller one, although a size it never evaluated would
\* have passed as well.
C10_Witness ==
    /\ sizing.returned
    /\ sizing.achieved
    /\ Len(evaluations) = 3
    /\ Cardinality(PassedSizes(sizing.search_log)) = 2
    /\ sizing.recommended_fleet_size < max_fleet
    /\ \E f \in min_fleet..max_fleet :
        /\ passes[f]
        /\ f \notin PassedSizes(sizing.search_log)

\* Passing at a fleet size implies passing at every larger size.
MonotonePasses == \A f, g \in 1..MaxFleet : (f <= g /\ passes[f]) => passes[g]

\* The sizes of [min_fleet, max_fleet] that meet the target.
PassingInRange == {f \in min_fleet..max_fleet : passes[f]}

RECURSIVE Pow2(_)
Pow2(n) == IF n = 0 THEN 1 ELSE 2 * Pow2(n - 1)

\* C11 as stated: with a monotone target, find_minimum_fleet_size returns
\* the minimum passing size of [min_fleet, max_fleet]: achieved = true means
\* no smaller size of the range passes, achieved = false means no size of
\* the range passes.
C11_MinimumOfRange ==
    (sizing.returned /\ MonotonePasses) =>
        /\ sizing.achieved =>
              /\ sizing.recommended_fleet_size \in PassingInRange
              /\ \A f \in PassingInRange : sizing.recommended_fleet_size <= f
        /\ ~sizing.achieved => PassingInRange = {}

\* C11, amended: the same, provided the search ran to completion (it left
\* the loop with lo > hi, not because max_iterations was used up); this is
\* the case whenever 2^max_iterations exceeds the number of sizes in the
\* range.
C11_MinimumOfRangeWhenSearchCompletes ==
    (sizing.returned /\ MonotonePasses) =>
        /\ Pow2(max_iterations) > max_fleet - min_fleet + 1 => lo > hi
        /\ lo > hi =>
              /\ sizing.achieved =>
                    /\ sizing.recommended_fleet_size \in PassingInRange
                    /\ \A f \in PassingInRange : sizing.recommended_fleet_size <= f
              /\ ~sizing.achieved => PassingInRange = {}

\* C11 witness: a completed three-step search over a monotone target
\* returned a size above min_fleet and below max_fleet, the size below it
\* failing.
C11_Witness ==
    /\ sizing.returned
    /\ MonotonePasses
    /\ lo > hi
    /\ sizing.achieved
    /\ Len(evaluations) = 3
    /\ sizing.recommended_fleet_size > min_fleet
    /\ sizing.recommended_fleet_size < max_fleet
    /\ ~passes[sizing.recommended_fleet_size - 1]

\* The runs whose total net cash flow is at least v.
RunsReaching(v) == {i \in 1..Len(agg_runs) : agg_runs[i].total_net_cash_flow >= v}

\* The runs whose total net cash flow is positive.
RunsPositive == {i \in 1..Len(agg_runs) : agg_runs[i].total_net_cash_flow > 0}

\* The runs that have broken even by month b.
RunsBrokenEvenBy(b) ==
    {i \in 1..Len(agg_runs) :
        agg_runs[i].break_even_month # NoMonth /\ agg_runs[i].break_even_month <= b}

\* At least 90% of the runs.
NinetyPercent(S) == 10 * Cardinality(S) >= 9 * Len(agg_runs)

\* C12: at confidence 90 the evaluation of a Monte-Carlo result tests the
\* pessimistic end of the runs: the tested net cash flow is reached or
\* exceeded by at least 90% of the runs and a positive_ncf pass means at
\* least 90% of the runs are positive; the tested break-even month is one by
\* which at least 90% of the runs have broken even and a break_even_within
\* pass means at least 90% of the runs broke even within the target.
C12_Confidence90IsPessimisticEnd ==
    (pilot.evaluated /\ pilot.confidence_pct = 90) =>
        /\ pilot.target_metric = "positive_ncf" =>
              /\ NinetyPercent(RunsReaching(pilot.ncf))
              /\ pilot.passed => NinetyPercent(RunsPositive)
        /\ pilot.target_metric = "break_even_within" =>
              /\ pilot.break_even_month # NoMonth
                    => NinetyPercent(RunsBrokenEvenBy(pilot.break_even_month))
              /\ pilot.passed => NinetyPercent(RunsBrokenEvenBy(pilot.break_even_target))

\* What C13 says of the rows apart from closing = opening - principal.
ScheduleShape ==
    /\ LoanAmount(debt_capex, finance) = 0 => debt.rows = <<>>
    /\ LoanAmount(debt_capex, finance) > 0 =>
          /\ Len(debt.rows) = Min(finance.loan_tenor_months, debt_horizon)
          /\ \A k \in 1..Len(debt.rows) : debt.rows[k].month = k
    /\ \A k \in 1..Len(debt.rows) :
          /\ debt.rows[k].closing_balance >= 0
          /\ k <= finance.grace_period_months =>
                /\ debt.rows[k].principal = 0
                /\ debt.rows[k].emi = debt.rows[k].interest
          /\ k > 1 =>
                /\ debt.rows[k].opening_balance = debt.rows[k - 1].closing_balance
                /\ debt.rows[k].closing_balance <= debt.rows[k - 1].closing_balance

\* C13 as stated: build_debt_schedule returns no rows for a loan of 0 and
\* else min(tenor, horizon) rows for months 1, 2, ...; in every row
\* closing_balance = opening_balance - principal and closing_balance >= 0;
\* in the grace period principal is 0 and emi equals interest; each opening
\* balance is the previous closing balance; the closing balance never
\* increases.
C13_ScheduleRowsExact ==
    debt.built =>
        /\ ScheduleShape
        /\ \A k \in 1..Len(debt.rows) :
              debt.rows[k].closing_balance =
                  debt.rows[k].opening_balance - debt.rows[k].principal

\* C13, amended: all of the above, except that closing = opening - principal
\* holds exactly for the unrounded amounts only; the row fields are their
\* 2-decimal roundings, so closing_balance is within 0.01 of
\* opening_balance - principal.
C13_ScheduleRowsRounded ==
    debt.built =>
        /\ ScheduleShape
        /\ Len(debt_exact) = Len(debt_rows)
        /\ \A k \in 1..Len(debt.rows) :
              /\ debt_exact[k].closing_balance =
                    debt_exact[k].opening_balance - debt_exact[k].principal
              /\ debt.rows[k].opening_balance = RoundCent(debt_exact[k].opening_balance)
              /\ debt.rows[k].principal = RoundCent(debt_exact[k].principal)
              /\ debt.rows[k].closing_balance = RoundCent(debt_exact[k].closing_balance)
              /\ Abs(debt.rows[k].closing_balance
                       - (debt.rows[k].opening_balance - debt.rows[k].principal)) <= 10

\* C13 witness: a three-row schedule of an interest-bearing loan with one
\* grace month, whose balance falls in months 2 and 3 and whose last row
\* does not add up to the cent.
C13_Witness ==
    /\ debt.built
    /\ Len(debt.rows) = 3
    /\ finance.grace_period_months = 1
    /\ finance.monthly_rate > 0
    /\ debt.rows[1].principal = 0
    /\ debt.rows[1].interest > 0
    /\ debt.rows[2].closing_balance < debt.rows[1].closing_balance
    /\ debt.rows[3].closing_balance < debt.rows[2].closing_balance
    /\ \E k \in 1..3 :
          debt.rows[k].closing_balance #
              debt.rows[k].opening_balance - debt.rows[k].principal

\* Months of the snapshots whose unrounded DSCR noi / emi is finite and
\* below the covenant threshold.
MonthsBelowThreshold ==
    { snaps[k].month : k \in { j \in 1..Len(snaps) :
          /\ HasDebtService(debt.rows, snaps[j].month)
          /\ (snaps[j].revenue - snaps[j].opex_total) * 10000
                < finance.dscr_covenant_threshold
                    * RowsOfMonth(debt.rows, snaps[j].month)[1].emi } }

FiniteMonths == { k \in 1..Len(dscr.monthly_dscr) : dscr.monthly_dscr[k] # Infinity }

\* What C14 says apart from min_dscr_month.
DscrReport ==
    /\ debt.loan_amount <= 0 =>
          /\ dscr.monthly_dscr = <<>>
          /\ dscr.breach_months = <<>>
    /\ debt.loan_amount > 0 =>
          /\ Len(dscr.monthly_dscr) = Len(snaps)
          /\ \A k \in 1..Len(snaps) :
                ~HasDebtService(debt.rows, snaps[k].month) =>
                    /\ dscr.monthly_dscr[k] = Infinity
                    /\ \A j \in 1..Len(dscr.breach_months) :
                          dscr.breach_months[j] # snaps[k].month
          /\ \A k \in 1..Len(snaps) :
                HasDebtService(debt.rows, snaps[k].month) =>
                    dscr.monthly_dscr[k] =
                        RoundHalfEven((snaps[k].revenue - snaps[k].opex_total) * 10000,
                                      debt.rows[snaps[k].month].emi)
          /\ { dscr.breach_months[j] : j \in 1..Len(dscr.breach_months) }
                = MonthsBelowThreshold
          /\ \A i, j \in 1..Len(dscr.breach_months) :
                i < j => dscr.breach_months[i] < dscr.breach_months[j]
          /\ FiniteMonths # {} =>
                /\ dscr.avg_dscr =
                      RoundHalfEven(SumOver(dscr.monthly_dscr, FiniteMonths),
                                    Cardinality(FiniteMonths))
                /\ \E k \in FiniteMonths : dscr.min_dscr = dscr.monthly_dscr[k]
                /\ \A k \in FiniteMonths : dscr.min_dscr <= dscr.monthly_dscr[k]

\* C14 as stated: compute_dscr reports +inf for every month without a debt
\* row or with EMI 0, never lists such a month as a breach and leaves it out
\* of the average and the minimum; breach_months is exactly the set of
\* months whose finite DSCR is below the covenant threshold; min_dscr_month
\* is a month whose DSCR equals min_dscr; with no debt the monthly list and
\* the breach list are empty.
C14_DscrReportMinMonthIsAMonth ==
    dscr.computed =>
        /\ DscrReport
        /\ debt.loan_amount > 0 =>
              /\ dscr.min_dscr_month \in 1..Len(dscr.monthly_dscr)
              /\ dscr.monthly_dscr[dscr.min_dscr_month] = dscr.min_dscr

\* C14, amended: as stated, with min_dscr_month the first month whose DSCR
\* equals min_dscr when some month has a finite DSCR; when none has (no
\* debt, or no month with a positive EMI) avg_dscr and min_dscr are +inf and
\* min_dscr_month is 0, which is no month.
C14_DscrReportMinMonthWhenFinite ==
    dscr.computed =>
        /\ DscrReport
        /\ (debt.loan_amount > 0 /\ FiniteMonths # {}) =>
              /\ dscr.min_dscr_month \in FiniteMonths
              /\ dscr.monthly_dscr[dscr.min_dscr_month] = dscr.min_dscr
              /\ \A k \in FiniteMonths :
                    dscr.monthly_dscr[k] = dscr.min_dscr => dscr.min_dscr_month <= k
        /\ (debt.loan_amount <= 0 \/ FiniteMonths = {}) =>
              /\ dscr.avg_dscr = Infinity
              /\ dscr.min_dscr = Infinity
              /\ dscr.min_dscr_month = 0

\* C14 witness: a report over three months of which one is a grace month
\* of a zero-interest loan (EMI 0, +inf), one breaches the covenant and one
\* does not; the minimum is at the breaching month.
C14_Witness ==
    /\ dscr.computed
    /\ Len(dscr.monthly_dscr) = 3
    /\ dscr.monthly_dscr[1] = Infinity
    /\ debt.rows[1].emi = 0
    /\ Len(dscr.breach_months) = 1
    /\ Cardinality(FiniteMonths) = 2
    /\ dscr.min_dscr_month = dscr.breach_months[1]
    /\ dscr.min_dscr < finance.dscr_covenant_threshold

\* the objects of the caller: its scenario with everything below it, and
\* its charger
CallerObjects == ReachFrom(caller_before, {CallerScenario, caller_charger})

\* the roots of the copies the running call (or, for the tuned copies, the
\* caller) holds
CopyRoots == { locals[n] : n \in DOMAIN locals } \ {NoObject}

\* C15: run_sensitivity, find_minimum_fleet_size, find_optimal_scale and
\* apply_tuned_parameters never modify the caller's scenario or charger:
\* during and after each call every field of every object of the caller's
\* scenario and charger has the value it had before, and no copy shares an
\* object with the caller's objects or with another copy.
C15_CallerObjectsUntouched ==
    /\ \A a \in CallerObjects :
          /\ heap.refs[a] = caller_before.refs[a]
          /\ heap.vals[a] = caller_before.vals[a]
    /\ \A r \in CopyRoots :
          /\ Reach(heap, r) \cap CallerObjects = {}
          /\ \A q \in CopyRoots \ {r} : Reach(heap, r) \cap Reach(heap, q) = {}

\* C15 witness: all four calls have returned, and the caller holds tuned
\* copies whose pack cost and charger MTBF differ from its own.
C15_Witness ==
    /\ returned = {"run_sensitivity", "find_minimum_fleet_size", "find_optimal_scale",
                   "apply_tuned_parameters"}
    /\ copy_pc = "tuned"
    /\ heap.vals[heap.refs[locals.tuned_scenario].pack].unit_cost
          # heap.vals[heap.refs[CallerScenario].pack].unit_cost
    /\ heap.vals[locals.tuned_charger].mtbf_hours # heap.vals[caller_charger].mtbf_hours
    /\ heap.vals[heap.refs[CallerScenario].simulation].engine = "stochastic"

\* the finished stochastic runs
StochasticRuns == { k \in 1..Len(runs) : runs[k].result.engine_type = "stochastic" }

\* sum of field f over the monthly snapshots ms
RECURSIVE FieldSum(_, _)
FieldSum(ms, f) == IF ms = <<>> THEN 0 ELSE ms[1][f] + FieldSum(Tail(ms), f)

\* C16: for every finished stochastic run the monthly
\* replacement_capex_this_month plus the monthly salvage_credit_this_month
\* add up to summary.total_replacement_capex, the monthly
\* salvage_credit_this_month to summary.total_salvage_credit and the monthly
\* packs_retired_this_month to summary.total_packs_retired.
C16_ReplacementTotalsReconcile ==
    \A k \in StochasticRuns :
        LET r == runs[k].result
        IN  /\ FieldSum(r.months, "replacement_capex_this_month")
                 + FieldSum(r.months, "salvage_credit_this_month")
                 = r.summary.total_replacement_capex
            /\ FieldSum(r.months, "salvage_credit_this_month")
                 = r.summary.total_salvage_credit
            /\ FieldSum(r.months, "packs_retired_this_month")
                 = r.summary.total_packs_retired

\* C16 witness: a finished stochastic run of three months that retired
\* packs, with a salvage credit below the replacement cost.
C16_Witness ==
    \E k \in StochasticRuns :
        /\ Len(runs[k].result.months) = 3
        /\ runs[k].result.summary.total_packs_retired > 0
        /\ runs[k].result.summary.total_salvage_credit > 0
        /\ runs[k].result.summary.total_replacement_capex
              > runs[k].result.summary.total_salvage_credit
        /\ \E j \in 1..3 : runs[k].result.months[j].packs_retired_this_month = 0

\* packs of the cohorts retired in month k
RetiredInMonth(k) ==
    SumOver([i \in 1..Len(cohorts) |->
                IF cohorts[i].is_retired /\ cohorts[i].retired_month = k
                THEN cohorts[i].pack_count ELSE 0],
            1..Len(cohorts))

\* Scenario S4: 0.10 % SOH per cycle, no calendar aging, retirement at SOH
\* 0.70, one initial cohort of 100 packs (and 10,000 fleet cycles a month).
ScenarioS4 ==
    /\ pack.cycle_degradation_rate = 1000
    /\ pack.calendar_aging_rate = 0
    /\ pack.retirement_soh = 700000
    /\ cohorts[1].pack_count = 100

\* C17 as stated: in scenario S4 the steps of months 1..6 give
\* packs_retired = 100 in month 3 and 0 in every other month.
C17_OnlyMonth3Retires ==
    ScenarioS4 =>
        /\ \A k \in 1..Min(deg_month, 6) :
              RetiredInMonth(k) = IF k = 3 THEN 100 ELSE 0
        /\ deg_month \in 1..6 =>
              deg_result.packs_retired = IF deg_month = 3 THEN 100 ELSE 0

\* C17, amended: without auto-replacement month 3 is the only retirement
\* month of 1..6; with auto-replacement (the default, and what the engine
\* uses) the 100 replacement packs of month 3 retire in month 6, so
\* packs_retired is 100 in months 3 and 6 and 0 in months 1, 2, 4 and 5.
C17_Month3AndReplacementInMonth6 ==
    ScenarioS4 =>
        /\ \A k \in 1..Min(deg_month, 6) :
              RetiredInMonth(k) =
                  IF k = 3 \/ (k = 6 /\ auto_replace) THEN 100 ELSE 0
        /\ deg_month \in 1..6 =>
              deg_result.packs_retired =
                  IF deg_month = 3 \/ (deg_month = 6 /\ auto_replace) THEN 100 ELSE 0
        /\ deg_month \in 1..6 =>
              deg_result.packs_replaced =
                  IF auto_replace THEN deg_result.packs_retired ELSE 0

\* C17 witness: scenario S4 stepped through month 6 with auto-replacement:
\* the initial cohort retired in month 3, its replacement in month 6.
C17_Witness ==
    /\ ScenarioS4
    /\ auto_replace
    /\ deg_month = 6
    /\ Len(cohorts) = 3
    /\ cohorts[1].retired_month = 3
    /\ cohorts[2].born_month = 3
    /\ cohorts[2].retired_month = 6
    /\ deg_result.packs_retired = 100

\* The loop of a stochastic run has just finished a month: deg_result and
\* rel_result are the tracker results of the month of the last snapshot.
MonthJustDone ==
    /\ mode \in {"single", "collect", "representative"}
    /\ pc = "loop"
    /\ months # <<>>
    /\ deg_month = Len(months)
    /\ rel_month = Len(months)

\* capex_this_month of the last snapshot less everything in it that is not
\* pack replacement: initial CapEx, packs for new vehicles, charger
\* replacements.
CapexForPackReplacement ==
    months[Len(months)].capex_this_month
        - (IF Len(months) = 1 THEN TotalInitialCapex(scenario, pack, charger) ELSE 0)
        - NewPacks(scenario, Len(months)) * pack.unit_cost
        - rel_result.replacement_cost

\* C18 as stated: in every month of a stochastic run the reported
\* replacement_capex_this_month is packs_retired * unit_cost, gross of
\* salvage, the reported salvage credit is packs_retired * salvage value,
\* and the amount added to the month's CapEx for pack replacement is the
\* difference of the two.
C18_ReportedReplacementCapexGross ==
    MonthJustDone =>
        LET snap == months[Len(months)]
        IN  /\ snap.packs_retired_this_month = deg_result.packs_retired
            /\ snap.replacement_capex_this_month
                  = snap.packs_retired_this_month * pack.unit_cost
            /\ snap.salvage_credit_this_month
                  = snap.packs_retired_this_month * pack.second_life_salvage_value
            /\ CapexForPackReplacement
                  = snap.replacement_capex_this_month - snap.salvage_credit_this_month

\* C18, amended: the reported replacement_capex_this_month is already net
\* of salvage: it is packs_retired * unit_cost less the reported salvage
\* credit packs_retired * salvage value, and it is exactly the amount added
\* to the month's CapEx for pack replacement.
C18_ReportedReplacementCapexIsNetAdded ==
    MonthJustDone =>
        LET snap == months[Len(months)]
        IN  /\ snap.packs_retired_this_month = deg_result.packs_retired
            /\ snap.salvage_credit_this_month
                  = snap.packs_retired_this_month * pack.second_life_salvage_value
            /\ snap.replacement_capex_this_month + snap.salvage_credit_this_month
                  = snap.packs_retired_this_month * pack.unit_cost
            /\ CapexForPackReplacement = snap.replacement_capex_this_month

\* C18 witness: a month after the first in which packs retired, with a
\* salvage credit, and a charger was replaced as well.
C18_Witness ==
    /\ MonthJustDone
    /\ Len(months) > 1
    /\ months[Len(months)].packs_retired_this_month > 0
    /\ months[Len(months)].salvage_credit_this_month > 0
    /\ rel_result.replacement_cost > 0

\* twelve times the operating hours of the whole dock fleet over the horizon
FleetHours12 ==
    tco_scenario.station.operating_hours_per_day * 365
        * tco_scenario.simulation.horizon_months * tco_docks

\* twelve times the dock hours after which one charger is fully replaced
HoursPerReplacement12 == 12 * tco_charger.mtbf_hours * tco_charger.replacement_threshold

\* Scenario S3: 250 docks, 21 h/day, MTBF 80,000 h, 60 months, threshold 3.
ScenarioS3 ==
    /\ tco_docks = 250
    /\ tco_scenario.station.operating_hours_per_day = 21
    /\ tco_scenario.simulation.horizon_months = 60
    /\ tco_charger.mtbf_hours = 80000
    /\ tco_charger.replacement_threshold = 3

\* C19: compute_charger_tco's num_replacements is the floor of the expected
\* failures of the whole dock fleet over the horizon divided by the
\* replacement threshold, also when the expected failures of one dock are
\* below the threshold; scenario S3 gives 39.
C19_ReplacementsFleetLevel ==
    tco.computed =>
        /\ tco.num_replacements * HoursPerReplacement12 <= FleetHours12
        /\ FleetHours12 < (tco.num_replacements + 1) * HoursPerReplacement12
        /\ tco.total_replacement_cost
              = tco.num_replacements * tco_charger.full_replacement_cost
        /\ ScenarioS3 => tco.num_replacements = 39

\* C19 witness: scenario S3 computed: the expected failures of one dock
\* (0.48) are below the threshold and 39 chargers are replaced.
C19_Witness ==
    /\ tco.computed
    /\ ScenarioS3
    /\ tco.expected_failures_over_horizon = 11977
    /\ FleetHours12 < tco_docks * HoursPerReplacement12
    /\ tco.num_replacements = 39

\* the call of find_optimal_scale is over
ScaleDone == scale_result.returned \/ scale_result.raised

\* the listed fleet sizes that pass the target
PassingSizes == {fleet_sizes[k] : k \in {j \in 1..Len(fleet_sizes) : ScalePassed(fleet_sizes[j])}}

\* the fleet sizes evaluated, in the order of their evaluation
EvaluatedSizes == [k \in 1..Len(scale_log) |-> scale_log[k].fleet_size]

\* every listed size evaluated once, in list order; the best passing size
\* returned with achieved = true, or a return with achieved = false
ScaleContract ==
    /\ EvaluatedSizes = fleet_sizes
    /\ scale_result.returned
    /\ scale_result.search_log = scale_log
    /\ IF PassingSizes # {}
       THEN /\ scale_result.achieved
            /\ scale_result.recommended_fleet_size \in PassingSizes
            /\ \A fs \in PassingSizes :
                  scale_outcomes[fs].npv
                      <= scale_outcomes[scale_result.recommended_fleet_size].npv
       ELSE ~scale_result.achieved

\* C20: find_optimal_scale evaluates every fleet size of the given list
\* exactly once, in list order, and returns the size with the highest NPV
\* among those that pass the target, with achieved = true; when no listed
\* size passes, it returns with achieved = false.
C20_EvaluatesAllReturnsBestPassing == ScaleDone => ScaleContract

\* The same for the calls given at least one fleet size.
ScaleContractOfNonEmptyLists == (ScaleDone /\ fleet_sizes # <<>>) => ScaleContract

\* A return that chose between two passing sizes of different NPV.
ScaleChoiceMade ==
    /\ scale_result.returned
    /\ \E a, b \in PassingSizes : scale_outcomes[a].npv < scale_outcomes[b].npv
    /\ fleet_sizes[1] = scale_result.recommended_fleet_size
    /\ Len(fleet_sizes) > 1

\* volatility 0, weekend factor 1 (the seasonal amplitude is 0 throughout)
NeutralDemand ==
    /\ dem_scenario.demand.distribution = "gamma"
    /\ dem_scenario.demand.volatility = 0
    /\ dem_scenario.demand.weekend_factor_pct = 100

\* the months of the fleet and of twice the fleet are computed in both engines
DemandDone ==
    /\ \A f \in DOMAIN dem_static : dem_static[f].done
    /\ \A f \in DOMAIN dem_generated : dem_generated[f].done

\* the visits of twice the fleet minus twice the visits of the fleet
StaticExcess == dem_static[2 * dem_fleet].swap_visits - 2 * dem_static[dem_fleet].swap_visits
GeneratedExcess ==
    dem_generated[2 * dem_fleet].swap_visits - 2 * dem_generated[dem_fleet].swap_visits

C28_NeutralGeneratorEqualsStatic ==
    NeutralDemand =>
        \A f \in DOMAIN dem_static :
            (dem_static[f].done /\ dem_generated[f].done) =>
                /\ dem_generated[f].swap_visits = dem_static[f].swap_visits
                /\ dem_generated[f].total_cycles = dem_static[f].total_cycles

\* the NPV of each variant under the field-tuned parameters
TunedNpvOf == [c \in 1..Len(original_npvs) |->
                  IF auto_tuned[c] THEN tuned_npvs[c] ELSE original_npvs[c]]

\* variant c has the highest NPV of npvs, and no other variant has the same
StrictBest(npvs, c) == \A d \in (1..Len(npvs)) \ {c} : npvs[c] > npvs[d]

RankingChangeAlerts == {k \in 1..Len(alerts) : alerts[k].alert_type = "ranking_change"}

VariantAlerts(c) ==
    {k \in 1..Len(alerts) :
        alerts[k].alert_type # "ranking_change" /\ alerts[k].affected_charger = c}

\* every tuned variant whose NPV change is at least threshold_pct of its
\* original NPV has an alert of its own
VariantAlertsEmitted ==
    \A c \in 1..Len(original_npvs) :
        (/\ auto_tuned[c]
         /\ original_npvs[c] # 0
         /\ ChangeAtLeast(original_npvs[c], tuned_npvs[c], threshold_pct))
            => VariantAlerts(c) # {}

\* C22: check_charger_recommendation emits a ranking_change alert whenever
\* the variant with the highest NPV under the field-tuned parameters is not
\* the variant with the highest original NPV, and a per-variant alert for
\* every variant whose NPV change is at least threshold_pct.
C22_RankingChangeAndVariantAlerts ==
    rec_returned =>
        /\ VariantAlertsEmitted
        /\ \A a, b \in 1..Len(original_npvs) :
              (a # b /\ StrictBest(original_npvs, a) /\ StrictBest(TunedNpvOf, b))
                  => RankingChangeAlerts # {}

\* What the returned alerts do satisfy: the per-variant alerts, and a
\* ranking_change alert exactly when some variant alert exists and the best
\* variant changes once the alerted variants' NPVs alone are revised.
RecommendationAsComputed ==
    rec_returned =>
        /\ VariantAlertsEmitted
        /\ Cardinality(RankingChangeAlerts) <= 1
        /\ RankingChangeAlerts # {} =>
              \E c \in 1..Len(original_npvs) : VariantAlerts(c) # {}

\* the bisection stopped on neither of its two convergence tests
NotConverged == irr.returned /\ irr.via = "exhausted"

\* C23: compute_irr returns null whenever the cash flows hold fewer than two
\* flows or no sign change, and also whenever the bisection has not
\* converged within max_iter iterations; the loop runs at most max_iter
\* iterations.
C23_IrrNullWithoutConvergence ==
    /\ irr_iter <= max_iter
    /\ irr.returned =>
          /\ (Len(cash_flows) < 2 \/ ~HasSignChange(cash_flows)) => irr.value = NoIrr
          /\ NotConverged => irr.value = NoIrr

\* What holds of every call: null exactly for fewer than two flows or no
\* sign change, at most max_iter iterations, and a rate of the bracket
\* otherwise, converged or not.
IrrAsComputed ==
    /\ irr_iter <= max_iter
    /\ irr_iter <= 30
    /\ irr.returned =>
          /\ irr.value = NoIrr <=> (Len(cash_flows) < 2 \/ ~HasSignChange(cash_flows))
          /\ irr.value # NoIrr => irr.value \in 0..RateUnits

\* the schedule is built, for a positive loan, and runs the full tenor
FullTenorSchedule ==
    /\ debt.built
    /\ debt.loan_amount > 0
    /\ debt_horizon >= finance.loan_tenor_months

\* all principal is repaid: the principal payments sum to the loan amount
\* and the final row closes at 0
LoanRepaid ==
    /\ debt.total_principal_paid = debt.loan_amount
    /\ debt.rows[Len(debt.rows)].closing_balance = 0

\* C24: for any debt schedule that runs the full tenor with a positive loan,
\* for every allowed grace period, the sum of all principal payments equals
\* the loan amount and the final row's closing balance is 0.
C24_FullTenorRepaysLoan == FullTenorSchedule => LoanRepaid

\* The same for the grace periods shorter than the tenor.
FullTenorRepaysLoanAfterGrace ==
    (FullTenorSchedule /\ finance.grace_period_months < finance.loan_tenor_months)
        => LoanRepaid

\* C25: after every step of the reliability tracker every dock's cumulative
\* failure count is in [0, replacement_threshold - 1]; a dock is replaced in
\* a step exactly when its previous count plus this step's failures reached
\* the threshold, once however many failures it drew; the step's
\* replacements is the number of such docks and its failures is the sum of
\* all sampled failures, those of replaced docks included.
C25_CumulativeFailuresBelowThreshold ==
    [][ rel_month' # rel_month =>
        LET reached == {d \in 1..total_docks :
                            cumulative_failures[d] + failures_per_dock'[d]
                                >= charger.replacement_threshold}
        IN  /\ \A d \in 1..total_docks :
                  /\ cumulative_failures'[d] \in 0..(charger.replacement_threshold - 1)
                  /\ d \in reached => cumulative_failures'[d] = 0
                  /\ d \notin reached =>
                        cumulative_failures'[d]
                            = cumulative_failures[d] + failures_per_dock'[d]
            /\ rel_result'.replacements = Cardinality(reached)
            /\ rel_result'.replacements <= total_docks
            /\ rel_result'.failures = SumFn(failures_per_dock', total_docks)
            /\ rel_result'.replacement_cost
                  = Round2(Cardinality(reached) * charger.full_replacement_cost)
      ]_vars

\* C25 witness: with threshold 1 a dock drew two failures in one step and
\* was replaced once, while the other dock drew none and was not replaced;
\* both failures are counted.
C25_Witness ==
    /\ total_docks = 2
    /\ rel_month >= 1
    /\ charger.replacement_threshold = 1
    /\ failures_per_dock = <<2, 0>>
    /\ cumulative_failures = <<0, 0>>
    /\ rel_result.replacements = 1
    /\ rel_result.failures = 2

\* =========================================================================
\* Cohorts created during a month of a stochastic run
\* (engine/orchestrator.py, _run_single_stochastic; engine/degradation.py)
\* =========================================================================
\* total_fleet_cycles the month just recorded handed to degradation.step
LastTotalCycles(ms) == ms[Len(ms)].total_cycles

\* A cohort as add_cohort leaves it: full SOH, no cycles, not retired.
Untouched(c) ==
    /\ c.current_soh = SohScale
    /\ c.cumulative_cycles = 0
    /\ ~c.is_retired
    /\ c.retired_month = 0

\* retired_month against born_month for every retired cohort: never before
\* the month of birth, and after it for every cohort but the initial one.
RetiredAfterBirth ==
    \A i \in 1..Len(cohorts) :
        cohorts[i].is_retired =>
            /\ cohorts[i].retired_month >= cohorts[i].born_month
            /\ cohorts[i].cohort_id # 0 =>
                  cohorts[i].retired_month > cohorts[i].born_month

\* One month of the stochastic loop, seen from the cohort list: the cohorts
\* it appends (replacements, then the growth cohort) are born in the month and
\* untouched; the active cohorts it started with, those created in the month
\* before included, all take the month's SOH loss and cycles.
MonthDegradesOlderCohortsOnly ==
    deg_month' = deg_month + 1 =>
        LET n == Len(cohorts)
            active_packs == ActivePackCount(cohorts)
            total_cycles == LastTotalCycles(months')
        IN  /\ Len(cohorts') >= n
            /\ \A i \in (n + 1)..Len(cohorts') :
                  /\ cohorts'[i].born_month = deg_month'
                  /\ Untouched(cohorts'[i])
            /\ \A i \in 1..n :
                  (~cohorts[i].is_retired /\ active_packs > 0) =>
                      /\ cohorts'[i].current_soh = cohorts[i].current_soh
                            - TotalSohLoss(pack, total_cycles, active_packs)
                      /\ cohorts'[i].cumulative_cycles = cohorts[i].cumulative_cycles
                            + CyclesPerPackRounded(total_cycles, active_packs)
            /\ \A i \in 1..n :
                  (cohorts[i].born_month = deg_month /\ cohorts[i].cohort_id # 0) =>
                      Untouched(cohorts[i])

\* C26: a cohort created during month m of a stochastic run (a replacement
\* made inside the degradation step or the growth cohort of the monthly loop)
\* takes no SOH loss and no cycles in month m and is degraded for the first
\* time in month m + 1; so every retired cohort has retired_month >=
\* born_month, and every cohort but the initial one retired_month > born_month.
C26_NewCohortsDegradeFromNextMonth ==
    [](RetiredAfterBirth) /\ [][MonthDegradesOlderCohortsOnly]_vars

\* C26 witness: in one stochastic run a replacement cohort and a growth cohort
\* exist, and a cohort other than the initial one has been retired.
C26_Witness ==
    /\ mode # "static"
    /\ RetiredAfterBirth
    /\ \E i, j, k \in 1..Len(cohorts) :
        /\ cohorts[i].cohort_id # 0 /\ cohorts[i].is_retired
        /\ cohorts[j].cohort_id # 0
        /\ \E r \in 1..Len(cohorts) :
              cohorts[r].is_retired /\ cohorts[r].retired_month = cohorts[j].born_month
        /\ cohorts[k].born_month > 1
        /\ months[cohorts[k].born_month].packs_retired_this_month = 0


\* =========================================================================
\* Active packs of the tracker along a stochastic run
\* (engine/orchestrator.py, _run_single_stochastic)
\* =========================================================================
\* total_packs + packs_per_vehicle * monthly_fleet_additions * (month - 1)
ExpectedActivePacks(sc, month) ==
    TotalPacks(sc)
    + sc.vehicle.packs_per_vehicle * sc.revenue.monthly_fleet_additions * (month - 1)

\* The tracker's active pack count once month deg_month has been processed.
ActivePacksFollowFleet ==
    deg_month >= 1 =>
        /\ ActivePackCount(cohorts) = ExpectedActivePacks(scenario, deg_month)
        /\ TotalPacks(scenario) > 0 => ActivePackCount(cohorts) > 0

\* A month of the run never lowers the active pack count.
ActivePacksNeverDrop ==
    deg_month' = deg_month + 1 =>
        ActivePackCount(cohorts') >= ActivePackCount(cohorts)

\* C30: in a stochastic run, after month m has been processed the tracker
\* holds total_packs + packs_per_vehicle * monthly_fleet_additions * (m - 1)
\* active packs: every retirement is matched by an equal replacement and
\* growth adds the new vehicles' packs, so the active count never drops and
\* is never 0 while total_packs > 0.
C30_ActivePacksFollowFleet ==
    [](ActivePacksFollowFleet) /\ [][ActivePacksNeverDrop]_vars

\* C30 witness: a growing fleet in month 3 or later, after cohorts have been
\* retired and replaced, holds exactly the expected number of active packs.
C30_Witness ==
    /\ deg_month >= 3
    /\ scenario.revenue.monthly_fleet_additions > 0
    /\ total_packs_retired > 0
    /\ ActivePackCount(cohorts) = ExpectedActivePacks(scenario, deg_month)
    /\ ActivePackCount(cohorts) > TotalPacks(scenario)


\* =========================================================================
\* Run summary against the monthly snapshots
\* (engine/cashflow.py, run_simulation; engine/orchestrator.py,
\* _run_single_stochastic)
\* =========================================================================
\* Largest gap rounding alone can open between a rounded total and the sum
\* of n rounded amounts: half a cent for each of them.
RoundingSlack(n) == 5 * (n + 1)

\* Sum of the unrounded CapEx of the months of a run.
RECURSIVE LedgerCapexSum(_)
LedgerCapexSum(ls) == IF ls = <<>> THEN 0 ELSE Head(ls).capex + LedgerCapexSum(Tail(ls))

\* CapEx booked in month 1 on top of the initial CapEx.
MonthOneExtras(k) == runs[k].ledger[1].capex - TotalInitialCapex(scenario, pack, charger)

\* C29: in both engines the summary of a finished run agrees with its
\* monthly snapshots: total_capex is the sum of capex_this_month over all
\* months, month 1 included, and total_net_cash_flow is the last month's
\* cumulative_cash_flow, both up to rounding.
C29_SummaryAgreesWithMonths ==
    \A k \in 1..Len(runs) :
        LET r == runs[k].result
            n == Len(r.months)
        IN  /\ Abs(r.summary.total_capex - FieldSum(r.months, "capex_this_month"))
                  <= RoundingSlack(n)
            /\ Abs(r.summary.total_net_cash_flow - r.months[n].cumulative_cash_flow)
                  <= RoundingSlack(n)

\* What the summaries do satisfy: total_capex is the initial CapEx plus the
\* CapEx of months 2 onwards, so it falls short of the monthly sum by what
\* month 1 booked beyond the initial CapEx, and total_net_cash_flow exceeds
\* the final cumulative cash flow by the same amount.
SummaryOmitsMonthOneExtras ==
    \A k \in 1..Len(runs) :
        LET r == runs[k].result
            n == Len(r.months)
        IN  /\ r.summary.total_capex =
                  Round2(LedgerCapexSum(runs[k].ledger) - MonthOneExtras(k))
            /\ r.summary.total_net_cash_flow =
                  Round2(runs[k].ledger[n].cumulative_cf + MonthOneExtras(k))
            /\ MonthOneExtras(k) >= 0

\* A finished run whose month 1 booked more than the initial CapEx.
SummaryShortOfMonths ==
    \E k \in 1..Len(runs) : MonthOneExtras(k) > 0


\* =========================================================================
\* Termination and range of the binary search (engine/optimizer.py,
\* find_minimum_fleet_size)
\* =========================================================================
\* The evaluations made so far: at most max_iterations, all inside
\* [min_fleet, max_fleet], no size twice; none at all for an empty range,
\* which returns achieved = false.
SearchBounded ==
    /\ iterations <= max_iterations
    /\ Len(evaluations) = iterations
    /\ \A k \in 1..Len(evaluations) :
          /\ evaluations[k] >= min_fleet
          /\ evaluations[k] <= max_fleet
          /\ \A j \in 1..(k - 1) : evaluations[j] # evaluations[k]
    /\ min_fleet > max_fleet => evaluations = <<>>
    /\ sizing.returned =>
          /\ sizing.search_iterations <= max_iterations
          /\ sizing.search_iterations = Len(sizing.search_log)
          /\ min_fleet > max_fleet =>
                (~sizing.achieved /\ sizing.search_iterations = 0)

\* An iteration leaves a strictly smaller interval inside the old one, without
\* the size it evaluated.
IntervalShrinks ==
    iterations' # iterations =>
        LET mid == evaluations'[Len(evaluations')]
        IN  /\ lo' >= lo
            /\ hi' <= hi
            /\ hi' - lo' < hi - lo
            /\ mid \in lo..hi
            /\ mid \notin lo'..hi'

\* C27: the binary search of find_minimum_fleet_size always terminates:
\* search_iterations <= max_iterations, [lo, hi] strictly shrinks on every
\* iteration so that no fleet size is evaluated twice, every evaluated size
\* lies in [min_fleet, max_fleet], and with min_fleet > max_fleet no
\* evaluation is made and achieved is false.
C27_SearchTerminatesInRange ==
    /\ [](SearchBounded)
    /\ [][IntervalShrinks]_vars
    /\ <>(sizing.returned)

\* C27 witness: a search over six sizes returned after three iterations that
\* emptied the interval.
C27_Witness ==
    /\ sizing.returned
    /\ max_fleet - min_fleet = 5
    /\ sizing.search_iterations = 3
    /\ lo > hi
    /\ SearchBounded

====
